---- MODULE Spec2Model ----
(***************************************************************************)
(* Verification model of the test-reliability engine:                      *)
(*   FlakyTestDetector  (src/src/core/mcp-server.ts, lines 393-716)        *)
(*   SelfHealingLocators (src/unnamed/part_013, lines 318-462)             *)
(*   SmartWaits         (src/src/core/smart-waits.ts, lines 9-246)         *)
(*   VisualValidator    (src/src/core/visual-validator.ts, lines 22-385)   *)
(*   AIEngine.constructor (src/src/core/ai-engine.ts, lines 18-34)         *)
(* Each component has its own specification; the variables of the other    *)
(* components stay at their initial values.                                *)
(***************************************************************************)
EXTENDS Integers, Sequences, FiniteSets, TLC

VARIABLES
    resultsFile,   \* content of test-results/execution-history.json
    wpc,           \* per worker: position inside recordTestResult
    wResults,      \* per worker: the `results` local of recordTestResult
    wPending,      \* per worker: the `result` argument of recordTestResult
    recorded,      \* results whose recordTestResult call has completed
    stamp,         \* number of results handed to recordTestResult so far
    opOut,         \* what the most recent FlakyTestDetector call returned or threw
    locatorCache,  \* SelfHealingLocators.locatorCache: description -> selector
    pageDelay,     \* the page: ms until the element of a selector is visible
    loc,           \* the getLocator call in flight, or its result
    sw,            \* the SmartWaits call in flight, or its result
    apiKey,        \* process.env.GOOGLE_GEMINI_API_KEY is set
    built,         \* per component: not constructed, constructed, or its constructor threw
    baselineDir,   \* test-results/baselines: path -> image
    screenshotsDir, \* test-results/screenshots: path -> image
    diffDir,       \* test-results/diffs: path -> image
    vv             \* the VisualValidator call in flight, or its result

historyVars == <<resultsFile, wpc, wResults, wPending, recorded, stamp, opOut>>

locatorVars == <<locatorCache, pageDelay, loc>>

envVars == <<apiKey, built>>

visualVars == <<baselineDir, screenshotsDir, diffDir, vv>>

vars == <<historyVars, locatorVars, sw, envVars, visualVars>>

----------------------------------------------------------------------------
(* Bounds *)

MaxRecords == 2

MaxFallbacks == 1

\* longest time a wait is followed, in TickMs units
MaxTicks == 6

MaxConditions == 1

\* longest history of one test whose report is computed
MaxRuns == 11

----------------------------------------------------------------------------
(* Exact rationals <<numerator, denominator>>, denominator > 0, lowest terms *)

Abs(n) == IF n < 0 THEN -n ELSE n

RECURSIVE GCD(_, _)
GCD(a, b) == IF b = 0 THEN a ELSE GCD(b, a % b)

Frac(n, d) == LET g == GCD(Abs(n), d) IN <<n \div g, d \div g>>

FracLess(a, b) == a[1] * b[2] < b[1] * a[2]

FracLeq(a, b) == a[1] * b[2] <= b[1] * a[2]

FracAdd(a, b) == Frac(a[1] * b[2] + b[1] * a[2], a[2] * b[2])

FracSub(a, b) == Frac(a[1] * b[2] - b[1] * a[2], a[2] * b[2])

FracHalf(a) == Frac(a[1], 2 * a[2])

FracDouble(a) == Frac(2 * a[1], a[2])

Zero == <<0, 1>>

One == <<1, 1>>

----------------------------------------------------------------------------
(* Strings are sequences of characters *)

UpperChars == <<"A", "B", "C", "D", "E", "F", "G", "H", "I", "J", "K", "L", "M", "N", "O", "P", "Q", "R", "S", "T", "U", "V", "W", "X", "Y", "Z">>

LowerChars == <<"a", "b", "c", "d", "e", "f", "g", "h", "i", "j", "k", "l", "m", "n", "o", "p", "q", "r", "s", "t", "u", "v", "w", "x", "y", "z">>

DigitChars == <<"0", "1", "2", "3", "4", "5", "6", "7", "8", "9">>

Whitespace == {" ", "\t", "\n"}

Range(f) == {f[i] : i \in DOMAIN f}

\* String.prototype.toLowerCase
toLowerCase(str) ==
    [i \in DOMAIN str |->
        IF str[i] \in Range(UpperChars)
        THEN LowerChars[CHOOSE k \in DOMAIN UpperChars : UpperChars[k] = str[i]]
        ELSE str[i]]

\* String.prototype.includes
Includes(str, sub) ==
    \/ sub = <<>>
    \/ \E i \in 1..(Len(str) - Len(sub) + 1) :
           str[i] = sub[1] /\ SubSeq(str, i, i + Len(sub) - 1) = sub

\* replace(/\s+/g, '-')
RECURSIVE CollapseWhitespace(_)
CollapseWhitespace(str) ==
    IF str = <<>> THEN <<>>
    ELSE IF Head(str) \in Whitespace
         THEN IF Len(str) > 1 /\ str[2] \in Whitespace
              THEN CollapseWhitespace(Tail(str))
              ELSE <<"-">> \o CollapseWhitespace(Tail(str))
         ELSE <<Head(str)>> \o CollapseWhitespace(Tail(str))

\* String.prototype.trim
RECURSIVE Trim(_)
Trim(str) ==
    IF str = <<>> THEN <<>>
    ELSE IF Head(str) \in Whitespace THEN Trim(Tail(str))
    ELSE IF str[Len(str)] \in Whitespace THEN Trim(SubSeq(str, 1, Len(str) - 1))
    ELSE str

\* str holds lit at position i
StartsWithAt(str, i, lit) ==
    i >= 1 /\ i + Len(lit) - 1 <= Len(str) /\ SubSeq(str, i, i + Len(lit) - 1) = lit

\* replace(/\d+/g, 'N')
RECURSIVE ReplaceDigits(_)
ReplaceDigits(str) ==
    IF str = <<>> THEN <<>>
    ELSE IF Head(str) \in Range(DigitChars)
         THEN IF Len(str) > 1 /\ str[2] \in Range(DigitChars)
              THEN ReplaceDigits(Tail(str))
              ELSE <<"N">> \o ReplaceDigits(Tail(str))
         ELSE <<Head(str)>> \o ReplaceDigits(Tail(str))

\* replace(/\s+/g, ' ')
RECURSIVE CollapseSpaces(_)
CollapseSpaces(str) ==
    IF str = <<>> THEN <<>>
    ELSE IF Head(str) \in Whitespace
         THEN IF Len(str) > 1 /\ str[2] \in Whitespace
              THEN CollapseSpaces(Tail(str))
              ELSE <<" ">> \o CollapseSpaces(Tail(str))
         ELSE <<Head(str)>> \o CollapseSpaces(Tail(str))

\* the first position from i on that holds c, on the line of position i
\* (`.` of a regular expression matches no line break), or 0
RECURSIVE FindOnLine(_, _, _)
FindOnLine(str, i, c) ==
    IF i > Len(str) THEN 0
    ELSE IF str[i] = c THEN i
    ELSE IF str[i] = "\n" THEN 0
    ELSE FindOnLine(str, i + 1, c)

\* Number.prototype.toString of a natural number
RECURSIVE NumberToString(_)
NumberToString(n) ==
    IF n < 10 THEN <<DigitChars[n + 1]>>
    ELSE NumberToString(n \div 10) \o <<DigitChars[(n % 10) + 1]>>

\* Number.prototype.toFixed(1) of the fraction x >= 0; the fractions of the
\* model never lie halfway between two tenths
ToFixed1(x) ==
    LET tenths == (20 * x[1] + x[2]) \div (2 * x[2])
    IN  NumberToString(tenths \div 10) \o <<".">> \o NumberToString(tenths % 10)

\* Array.prototype.join
RECURSIVE Join(_, _)
Join(strs, sep) ==
    IF strs = <<>> THEN <<>>
    ELSE IF Len(strs) = 1 THEN strs[1]
    ELSE strs[1] \o sep \o Join(Tail(strs), sep)

\* the distinct entries of seq in the order of their first occurrence: the
\* keys of a Map, the entries of a Set
RECURSIVE InsertionOrder(_, _)
InsertionOrder(seq, seen) ==
    IF seq = <<>> THEN <<>>
    ELSE IF Head(seq) \in seen THEN InsertionOrder(Tail(seq), seen)
    ELSE <<Head(seq)>> \o InsertionOrder(Tail(seq), seen \cup {Head(seq)})

RECURSIVE Sum(_)
Sum(seq) == IF seq = <<>> THEN 0 ELSE Head(seq) + Sum(Tail(seq))

----------------------------------------------------------------------------
(* FlakyTestDetector: data *)

Workers == {"w1", "w2"}

TestNames == {"login", "search"}

Statuses == {"passed", "failed", "skipped"}

\* TestResult with all its fields; an optional field that is absent (or
\* empty: both are falsy) is the empty text
Run(n, s, t, duration, retryCount, error, browser, os) ==
    [testName |-> n, status |-> s, timestamp |-> t, duration |-> duration,
     retryCount |-> retryCount, error |-> error, browser |-> browser, os |-> os]

\* a TestResult without optional fields; `timestamp` makes every recorded
\* result distinct
TestResult(n, s, t) == Run(n, s, t, 1, 0, <<>>, <<>>, <<>>)

\* resultsFile: what the file holds
FileMissing == [kind |-> "missing", recs |-> <<>>]

FileGarbage == [kind |-> "garbage", recs |-> <<>>]

\* valid JSON that is an object, not an array
FileObject == [kind |-> "object", recs |-> <<>>]

FileArray(rs) == [kind |-> "array", recs |-> rs]

\* FLAKY_TEST_THRESHOLD default '0.3'
flakyThreshold == <<3, 10>>

\* outputs of aiEngine.detectFlakyTests as seen by analyzeTestFlakiness for
\* one test: the call throws, no entry for the test, or an entry with a score
AIScores == {<<-1, 2>>, <<0, 1>>, <<1, 2>>, <<3, 2>>}

AIOutcomes == {[kind |-> "error", flakyScore |-> Zero], [kind |-> "absent", flakyScore |-> Zero]}
              \cup {[kind |-> "entry", flakyScore |-> s] : s \in AIScores}

AIAbsent == [kind |-> "absent", flakyScore |-> Zero]

\* opOut of a call that returns nothing
NoOp == [op |-> "none", threw |-> FALSE, input |-> <<>>, ai |-> [n \in TestNames |-> AIAbsent],
         analyses |-> <<>>, result |-> <<>>]

----------------------------------------------------------------------------
(* FlakyTestDetector: persistence *)

\* loadTestResults: the parsed value, or [] when the file is missing,
\* unreadable (readOk = FALSE) or not JSON
loadTestResults(file, readOk) ==
    IF file.kind = "missing" THEN [isArray |-> TRUE, recs |-> <<>>]
    ELSE IF ~readOk THEN [isArray |-> TRUE, recs |-> <<>>]
    ELSE IF file.kind = "garbage" THEN [isArray |-> TRUE, recs |-> <<>>]
    ELSE IF file.kind = "object" THEN [isArray |-> FALSE, recs |-> <<>>]
    ELSE [isArray |-> TRUE, recs |-> file.recs]

\* saveTestResults: the file is replaced by the serialised array
saveTestResults(results) == FileArray(results)

\* recordTestResult up to the first await: `results = await loadTestResults()`
RecordLoad(w, r, readOk) ==
    /\ wpc[w] = "idle"
    /\ stamp < MaxRecords
    /\ stamp' = stamp + 1
    /\ wPending' = [wPending EXCEPT ![w] = TestResult(r.testName, r.status, stamp + 1)]
    /\ wResults' = [wResults EXCEPT ![w] = loadTestResults(resultsFile, readOk)]
    /\ wpc' = [wpc EXCEPT ![w] = "loaded"]
    /\ opOut' = NoOp
    /\ UNCHANGED <<resultsFile, recorded>>
    /\ UNCHANGED <<locatorVars, sw, envVars, visualVars>>

\* recordTestResult after the await: results.push(result); saveTestResults(results).
\* push on a value that is not an array throws; the catch only logs.
RecordSave(w) ==
    /\ wpc[w] = "loaded"
    /\ resultsFile' = IF wResults[w].isArray
                      THEN saveTestResults(Append(wResults[w].recs, wPending[w]))
                      ELSE resultsFile
    /\ recorded' = recorded \cup {wPending[w]}
    /\ wpc' = [wpc EXCEPT ![w] = "idle"]
    /\ UNCHANGED <<wResults, wPending, stamp, opOut>>
    /\ UNCHANGED <<locatorVars, sw, envVars, visualVars>>

----------------------------------------------------------------------------
(* FlakyTestDetector: analysis *)

ResultsOf(results, testName) == SelectSeq(results, LAMBDA r : r.testName = testName)

CountStatus(results, st) == Len(SelectSeq(results, LAMBDA r : r.status = st))

\* keys of groupBy(results, r => r.testName), in insertion order
RECURSIVE GroupKeys(_, _)
GroupKeys(results, seen) ==
    IF results = <<>> THEN <<>>
    ELSE IF Head(results).testName \in seen
         THEN GroupKeys(Tail(results), seen)
         ELSE <<Head(results).testName>>
              \o GroupKeys(Tail(results), seen \cup {Head(results).testName})

groupResultsByTest(results) ==
    [n \in {results[i].testName : i \in DOMAIN results} |-> ResultsOf(results, n)]

\* (variant) the sample-size term does not saturate
calculateConfidence_NoSaturation(totalRuns, flakyScore) ==
    LET runConfidence == Frac(totalRuns, 10)
        scoreConfidence == IF FracLess(<<1, 2>>, flakyScore) THEN One ELSE FracDouble(flakyScore)
    IN  FracHalf(FracAdd(runConfidence, scoreConfidence))

\* calculateConfidence(totalRuns, flakyScore)
calculateConfidence(totalRuns, flakyScore) ==
    LET runConfidence == IF totalRuns >= 10 THEN One ELSE Frac(totalRuns, 10)
        scoreConfidence == IF FracLess(<<1, 2>>, flakyScore) THEN One ELSE FracDouble(flakyScore)
    IN  FracHalf(FracAdd(runConfidence, scoreConfidence))

\* Math.max(a, b)
MathMax(a, b) == IF FracLess(a, b) THEN b ELSE a

\* the statistical score of analyzeTestFlakiness: 1 - passedRuns / totalRuns
StatisticalScore(results) ==
    FracSub(One, Frac(CountStatus(results, "passed"), Len(results)))

\* normalizeError, line 659: replace(/at .*?\(.*?\)/g, 'at ...'), from
\* position i on
RECURSIVE SimplifyStack(_, _)
SimplifyStack(str, i) ==
    IF i > Len(str) THEN <<>>
    ELSE LET open == IF StartsWithAt(str, i, <<"a", "t", " ">>)
                     THEN FindOnLine(str, i + 3, "(") ELSE 0
             close == IF open = 0 THEN 0 ELSE FindOnLine(str, open + 1, ")")
         IN  IF close # 0
             THEN <<"a", "t", " ", ".", ".", ".">> \o SimplifyStack(str, close + 1)
             ELSE <<str[i]>> \o SimplifyStack(str, i + 1)

\* normalizeError(error)
normalizeError(error) == Trim(CollapseSpaces(SimplifyStack(ReplaceDigits(error), 1)))

\* analyzeErrorPatterns(results): the normalized errors that occur more than
\* once, in the order of their first occurrence, each with its count
analyzeErrorPatterns(results) ==
    LET errors == SelectSeq(results, LAMBDA r : r.error # <<>>)
        normalized == [i \in DOMAIN errors |-> normalizeError(errors[i].error)]
        Count(e) == Cardinality({i \in DOMAIN normalized : normalized[i] = e})
        recurring == SelectSeq(InsertionOrder(normalized, {}), LAMBDA e : Count(e) > 1)
    IN  [i \in DOMAIN recurring |->
            recurring[i] \o <<" ", "(">> \o NumberToString(Count(recurring[i]))
            \o <<" ", "t", "i", "m", "e", "s", ")">>]

\* calculateDurationVariance(results), squared: variance / mean^2; 0 stands
\* for the NaN of a mean of 0, which no comparison exceeds
calculateDurationVariance(results) ==
    LET n == Len(results)
        total == Sum([i \in DOMAIN results |-> results[i].duration])
        squares == Sum([i \in DOMAIN results |-> results[i].duration * results[i].duration])
    IN  IF total = 0 THEN Zero ELSE Frac(n * squares - total * total, total * total)

\* analyzeRetryPatterns(results).avgRetries
analyzeRetryPatterns(results) ==
    Frac(Sum([i \in DOMAIN results |-> results[i].retryCount]), Len(results))

\* one loop of analyzeEnvironmentIssues, lines 555-561 and 564-570: the
\* groups of the tags, in insertion order, with a pass rate below 0.8
LowPassRates(results, tags) ==
    LET keys == InsertionOrder(tags, {})
        rates == [i \in DOMAIN keys |->
                     Frac(Cardinality({j \in DOMAIN results :
                                          tags[j] = keys[i] /\ results[j].status = "passed"}),
                          Cardinality({j \in DOMAIN results : tags[j] = keys[i]}))]
        low == SelectSeq([i \in DOMAIN keys |-> i], LAMBDA i : FracLess(rates[i], <<4, 5>>))
    IN  [i \in DOMAIN low |->
            <<"L", "o", "w", " ", "p", "a", "s", "s", " ", "r", "a", "t", "e", " ", "o", "n", " ">> \o keys[low[i]] \o <<" ", "(">>
            \o ToFixed1(Frac(100 * rates[low[i]][1], rates[low[i]][2])) \o <<"%", ")">>]

TextUnknown == <<"u", "n", "k", "n", "o", "w", "n">>

\* analyzeEnvironmentIssues(results)
analyzeEnvironmentIssues(results) ==
    LowPassRates(results, [i \in DOMAIN results |->
                              IF results[i].browser = <<>> THEN TextUnknown
                              ELSE results[i].browser])
    \o LowPassRates(results, [i \in DOMAIN results |->
                                 IF results[i].os = <<>> THEN TextUnknown ELSE results[i].os])

\* flakyScore > 0.3 for flakyScore = 1 - passRate in double arithmetic:
\* 1 - 0.7 evaluates to 0.30000000000000004, which exceeds 0.3
ExceedsThreeTenths(flakyScore) == FracLeq(<<3, 10>>, flakyScore)

\* getStatisticalReasons(flakyScore, durationVariance, errorPatterns, retryPatterns)
getStatisticalReasons(flakyScore, durationVariance, errorPatterns, avgRetries) ==
    (IF ExceedsThreeTenths(flakyScore)
     THEN <<<<"H", "i", "g", "h", " ", "f", "a", "i", "l", "u", "r", "e", " ", "r", "a", "t", "e", ":", " ">>
            \o ToFixed1(Frac(100 * flakyScore[1], flakyScore[2])) \o <<"%">>>>
     ELSE <<>>)
    \o (IF FracLess(<<1, 4>>, durationVariance)
        THEN <<<<"H", "i", "g", "h", " ", "d", "u", "r", "a", "t", "i", "o", "n", " ", "v", "a", "r", "i", "a", "n", "c", "e", " ", "i", "n", "d", "i", "c", "a", "t", "i", "n", "g", " ", "t", "i", "m", "i", "n", "g", " ", "i", "s", "s", "u", "e", "s">>>>
        ELSE <<>>)
    \o (IF Len(errorPatterns) > 0
        THEN <<<<"R", "e", "c", "u", "r", "r", "i", "n", "g", " ", "e", "r", "r", "o", "r", "s", ":", " ">> \o Join(errorPatterns, <<",", " ">>)>>
        ELSE <<>>)
    \o (IF FracLess(One, avgRetries)
        THEN <<<<"H", "i", "g", "h", " ", "r", "e", "t", "r", "y", " ", "c", "o", "u", "n", "t", ":", " ">> \o ToFixed1(avgRetries)
               \o <<" ", "a", "v", "e", "r", "a", "g", "e", " ", "r", "e", "t", "r", "i", "e", "s">>>>
        ELSE <<>>)

\* reasons.some(r => r.includes(word))
SomeIncludes(texts, word) == \E i \in DOMAIN texts : Includes(texts[i], word)

\* generateRecommendations(reasons, errorPatterns, environmentIssues)
generateRecommendations(reasons, errorPatterns, environmentIssues) ==
    (IF SomeIncludes(reasons, <<"t", "i", "m", "i", "n", "g">>)
     THEN <<<<"A", "d", "d", " ", "e", "x", "p", "l", "i", "c", "i", "t", " ", "w", "a", "i", "t", "s", " ", "a", "n", "d", " ", "i", "n", "c", "r", "e", "a", "s", "e", " ", "t", "i", "m", "e", "o", "u", "t", "s">>,
            <<"U", "s", "e", " ", "s", "m", "a", "r", "t", " ", "w", "a", "i", "t", " ", "s", "t", "r", "a", "t", "e", "g", "i", "e", "s", " ", "f", "o", "r", " ", "d", "y", "n", "a", "m", "i", "c", " ", "c", "o", "n", "t", "e", "n", "t">>>>
     ELSE <<>>)
    \o (IF SomeIncludes(reasons, <<"s", "e", "l", "e", "c", "t", "o", "r">>)
        THEN <<<<"U", "s", "e", " ", "m", "o", "r", "e", " ", "r", "o", "b", "u", "s", "t", " ", "s", "e", "l", "e", "c", "t", "o", "r", "s", " ", "w", "i", "t", "h", " ", "d", "a", "t", "a", "-", "t", "e", "s", "t", "i", "d", " ", "a", "t", "t", "r", "i", "b", "u", "t", "e", "s">>,
               <<"I", "m", "p", "l", "e", "m", "e", "n", "t", " ", "s", "e", "l", "f", "-", "h", "e", "a", "l", "i", "n", "g", " ", "l", "o", "c", "a", "t", "o", "r", "s">>>>
        ELSE <<>>)
    \o (IF SomeIncludes(errorPatterns, <<"t", "i", "m", "e", "o", "u", "t">>)
        THEN <<<<"I", "n", "c", "r", "e", "a", "s", "e", " ", "t", "i", "m", "e", "o", "u", "t", " ", "v", "a", "l", "u", "e", "s", " ", "f", "o", "r", " ", "s", "l", "o", "w", " ", "o", "p", "e", "r", "a", "t", "i", "o", "n", "s">>,
               <<"A", "d", "d", " ", "n", "e", "t", "w", "o", "r", "k", " ", "i", "d", "l", "e", " ", "w", "a", "i", "t", "s">>>>
        ELSE <<>>)
    \o (IF Len(environmentIssues) > 0
        THEN <<<<"I", "n", "v", "e", "s", "t", "i", "g", "a", "t", "e", " ", "e", "n", "v", "i", "r", "o", "n", "m", "e", "n", "t", "-", "s", "p", "e", "c", "i", "f", "i", "c", " ", "i", "s", "s", "u", "e", "s">>,
               <<"A", "d", "d", " ", "e", "n", "v", "i", "r", "o", "n", "m", "e", "n", "t", "-", "s", "p", "e", "c", "i", "f", "i", "c", " ", "t", "e", "s", "t", " ", "c", "o", "n", "f", "i", "g", "u", "r", "a", "t", "i", "o", "n", "s">>>>
        ELSE <<>>)
    \o (IF SomeIncludes(reasons, <<"d", "a", "t", "a">>)
        THEN <<<<"U", "s", "e", " ", "s", "t", "a", "b", "l", "e", " ", "t", "e", "s", "t", " ", "d", "a", "t", "a", " ", "a", "n", "d", " ", "c", "l", "e", "a", "n", "u", "p", " ", "p", "r", "o", "c", "e", "d", "u", "r", "e", "s">>,
               <<"I", "m", "p", "l", "e", "m", "e", "n", "t", " ", "d", "a", "t", "a", " ", "i", "s", "o", "l", "a", "t", "i", "o", "n", " ", "b", "e", "t", "w", "e", "e", "n", " ", "t", "e", "s", "t", "s">>>>
        ELSE <<>>)

\* aiAnalysis.reasons || []
AIReasons(ai) == IF ai.kind = "entry" /\ "reasons" \in DOMAIN ai THEN ai.reasons ELSE <<>>

\* analyzeTestFlakiness, lines 476-499: the reasons, without duplicates, and
\* the recommendations
CombineAnalyses(results, ai) ==
    LET errorPatterns == analyzeErrorPatterns(results)
        reasons == getStatisticalReasons(StatisticalScore(results),
                                         calculateDurationVariance(results),
                                         errorPatterns, analyzeRetryPatterns(results))
                   \o AIReasons(ai)
    IN  [reasons |-> InsertionOrder(reasons, {}),
         recommendations |-> generateRecommendations(reasons, errorPatterns,
                                                     analyzeEnvironmentIssues(results))]

\* (variant) the suggestion score replaces the statistical score
analyzeTestFlakiness_AIOverrides(testName, results, ai) ==
    [testName |-> testName,
     flakyScore |-> IF ai.kind = "entry" THEN ai.flakyScore ELSE StatisticalScore(results),
     reasons |-> CombineAnalyses(results, ai).reasons,
     recommendations |-> CombineAnalyses(results, ai).recommendations,
     confidence |-> calculateConfidence(Len(results), StatisticalScore(results))]

\* analyzeTestFlakiness(testName, results) with the outcome `ai` of the
\* suggestion call; results is non-empty at both call sites
analyzeTestFlakiness(testName, results, ai) ==
    LET totalRuns == Len(results)
        flakyScore == StatisticalScore(results)
        aiScore == IF ai.kind = "entry" /\ ai.flakyScore # Zero THEN ai.flakyScore ELSE Zero
        combined == CombineAnalyses(results, ai)
    IN  [testName |-> testName,
         flakyScore |-> MathMax(flakyScore, aiScore),
         reasons |-> combined.reasons,
         recommendations |-> combined.recommendations,
         confidence |-> calculateConfidence(totalRuns, flakyScore)]

\* the reports of keys[i..] whose score reaches the threshold, in order
RECURSIVE FlakyOf(_, _)
FlakyOf(keys, analyses) ==
    IF keys = <<>> THEN <<>>
    ELSE (IF FracLeq(flakyThreshold, analyses[Head(keys)].flakyScore)
          THEN <<analyses[Head(keys)]>> ELSE <<>>)
         \o FlakyOf(Tail(keys), analyses)

\* (variant) a test is reported only when its score exceeds the threshold
detectFlakyTests_StrictThreshold(readOk, ai) ==
    LET results == loadTestResults(resultsFile, readOk)
        groups == groupResultsByTest(results.recs)
        analyses == [n \in DOMAIN groups |-> analyzeTestFlakiness(n, groups[n], ai[n])]
        flaky == SelectSeq(GroupKeys(results.recs, {}),
                           LAMBDA n : FracLess(flakyThreshold, analyses[n].flakyScore))
    IN  /\ \A w \in Workers : wpc[w] = "idle"
        /\ \A n \in TestNames \ DOMAIN groups : ai[n] = AIAbsent
        /\ opOut' = IF ~results.isArray
                    THEN [op |-> "detect", threw |-> TRUE, input |-> <<>>, ai |-> ai,
                          analyses |-> <<>>, result |-> <<>>]
                    ELSE [op |-> "detect", threw |-> FALSE, input |-> results.recs, ai |-> ai,
                          analyses |-> analyses,
                          result |-> [i \in DOMAIN flaky |-> analyses[flaky[i]]]]
        /\ UNCHANGED <<resultsFile, wpc, wResults, wPending, recorded, stamp>>
        /\ UNCHANGED <<locatorVars, sw, envVars, visualVars>>

\* the loop of detectFlakyTests, lines 430-431: the analysis of each of the
\* groups `keys`, by test name
RECURSIVE AnalysesOf(_, _, _)
AnalysesOf(keys, groups, ai) ==
    IF keys = <<>> THEN <<>>
    ELSE (Head(keys) :> analyzeTestFlakiness(Head(keys), groups[Head(keys)], ai[Head(keys)]))
         @@ AnalysesOf(Tail(keys), groups, ai)

\* detectFlakyTests: iterating a value that is not iterable throws, and the
\* catch rethrows
detectFlakyTests(readOk, ai) ==
    LET results == loadTestResults(resultsFile, readOk)
        groups == groupResultsByTest(results.recs)
        analyses == AnalysesOf(GroupKeys(results.recs, {}), groups, ai)
    IN  /\ \A w \in Workers : wpc[w] = "idle"
        /\ \A n \in TestNames \ DOMAIN groups : ai[n] = AIAbsent
        /\ opOut' = IF ~results.isArray
                    THEN [op |-> "detect", threw |-> TRUE, input |-> <<>>, ai |-> ai,
                          analyses |-> <<>>, result |-> <<>>]
                    ELSE [op |-> "detect", threw |-> FALSE, input |-> results.recs, ai |-> ai,
                          analyses |-> analyses,
                          result |-> FlakyOf(GroupKeys(results.recs, {}), analyses)]
        /\ UNCHANGED <<resultsFile, wpc, wResults, wPending, recorded, stamp>>
        /\ UNCHANGED <<locatorVars, sw, envVars, visualVars>>

\* getFlakyTestRecommendations(testName): every exception is caught
getFlakyTestRecommendations(testName, readOk, ai) ==
    LET results == loadTestResults(resultsFile, readOk)
        testResults == ResultsOf(results.recs, testName)
        analysis == analyzeTestFlakiness(testName, testResults, ai[testName])
    IN  /\ \A w \in Workers : wpc[w] = "idle"
        /\ \A n \in TestNames : (n # testName \/ testResults = <<>>) => ai[n] = AIAbsent
        /\ opOut' = IF ~results.isArray
                    THEN [op |-> "recommend", threw |-> FALSE, input |-> <<>>, ai |-> ai,
                          analyses |-> <<>>, result |-> <<"Unable to generate recommendations">>]
                    ELSE IF testResults = <<>>
                    THEN [op |-> "recommend", threw |-> FALSE, input |-> results.recs, ai |-> ai,
                          analyses |-> <<>>, result |-> <<"No test results found">>]
                    ELSE [op |-> "recommend", threw |-> FALSE, input |-> results.recs, ai |-> ai,
                          analyses |-> (testName :> analysis),
                          result |-> analysis.recommendations]
        /\ UNCHANGED <<resultsFile, wpc, wResults, wPending, recorded, stamp>>
        /\ UNCHANGED <<locatorVars, sw, envVars, visualVars>>

----------------------------------------------------------------------------
(* SelfHealingLocators: descriptions and suggestion replies as text *)

\* sanitizeDescription
sanitizeDescription(description) ==
    Trim(CollapseWhitespace(
        SelectSeq(toLowerCase(description),
                  LAMBDA c : c \in Range(LowerChars) \cup Range(DigitChars) \cup Whitespace)))

\* position of the first '"' at or after i, or 0
RECURSIVE NextQuote(_, _)
NextQuote(str, i) ==
    IF i > Len(str) THEN 0
    ELSE IF str[i] = "\"" THEN i
    ELSE NextQuote(str, i + 1)

\* aiResponse.match(/"([^"]+)"/g) from position i on, each match without its quotes
RECURSIVE MatchQuoted(_, _)
MatchQuoted(str, i) ==
    LET open == NextQuote(str, i)
        close == IF open = 0 THEN 0 ELSE NextQuote(str, open + 1)
    IN  IF open = 0 \/ close = 0 THEN <<>>
        ELSE IF close = open + 1 THEN MatchQuoted(str, open + 1)
        ELSE <<SubSeq(str, open + 1, close - 1)>> \o MatchQuoted(str, close + 1)

\* parseAIStrategies
parseAIStrategies(aiResponse) == MatchQuoted(aiResponse, 1)

----------------------------------------------------------------------------
(* SelfHealingLocators: selectors and the page *)

Selector(kind, arg) == [kind |-> kind, arg |-> arg]

Raw(arg) == Selector("raw", arg)

\* no cache entry: locatorCache.get(description) is undefined
NoSelector == Selector("none", <<>>)

DescSubmitButton == <<"S", "u", "b", "m", "i", "t", " ", "B", "u", "t", "t", "o", "n">>

DescEmail == <<"E", "-", "m", "a", "i", "l">>

Descriptions == {DescSubmitButton, DescEmail}

SelGo == Raw(<<"#", "g", "o">>)

SelForm == Raw(<<".", "f">>)

\* the selectors that some page of the model shows; every other selector
\* matches nothing
PageSelectors == {Selector("text", DescSubmitButton), SelGo, SelForm}

Never == -1

\* an element that appears only after the 1000 ms of the cache probe
Late == 5000

InitialPages == [PageSelectors -> {0, Late, Never}]

DelayOf(page, sel) == IF sel \in DOMAIN page THEN page[sel] ELSE Never

\* the page after t ms have passed
Elapse(page, t) ==
    [sel \in DOMAIN page |->
        IF page[sel] = Never THEN Never
        ELSE IF page[sel] <= t THEN 0 ELSE page[sel] - t]

\* isElementVisible(page.locator(sel), timeout): waitFor({state: 'visible'})
\* succeeds when the element shows within the timeout, else the catch returns false
isElementVisible(page, sel, timeout) ==
    DelayOf(page, sel) # Never /\ DelayOf(page, sel) <= timeout

\* ms spent inside isElementVisible
ProbeTime(page, sel, timeout) ==
    IF isElementVisible(page, sel, timeout) THEN DelayOf(page, sel) ELSE timeout

\* timeout of the probe of a cached selector (getLocator line 343)
CacheProbeTimeout == 1000

\* default of options.timeout
DefaultTimeout == 10000

\* what aiEngine.generateSelfHealingLocator does: throws, or returns a text
AIError == [kind |-> "error", text |-> <<>>]

AITexts == {<<"n", "o", "n", "e">>,
            <<"\"", "#", "g", "o", "\"">>,
            <<"\"", "#", "x", "\"", "\"", "#", "g", "o", "\"">>}

AIReplies == {AIError} \cup {[kind |-> "text", text |-> x] : x \in AITexts}

\* caller-supplied options.fallbackStrategies
RECURSIVE SeqsUpTo(_, _)
SeqsUpTo(S, n) ==
    IF n = 0 THEN {<<>>}
    ELSE SeqsUpTo(S, n - 1) \cup {Append(q, x) : q \in SeqsUpTo(S, n - 1), x \in S}

FallbackLists == SeqsUpTo({SelForm, SelGo}, MaxFallbacks)

----------------------------------------------------------------------------
(* SelfHealingLocators: operations *)

\* generateFallbackStrategies(description, page, useAI) when the suggestion
\* call answers `ai`
generateFallbackStrategies(description, useAI, ai) ==
    LET san == sanitizeDescription(description)
        low == toLowerCase(description)
        basic == <<Selector("testid", san), Selector("aria", san),
                   Selector("text", description), Selector("title", san),
                   Selector("placeholder", san)>>
        button == IF Includes(low, <<"b", "u", "t", "t", "o", "n">>)
                  THEN <<Raw(<<"b", "u", "t", "t", "o", "n">>), Raw(<<"[", "r", "o", "l", "e", "=", "\"", "b", "u", "t", "t", "o", "n", "\"", "]">>)>>
                  ELSE <<>>
        input == IF Includes(low, <<"i", "n", "p", "u", "t">>) \/ Includes(low, <<"f", "i", "e", "l", "d">>)
                 THEN <<Raw(<<"i", "n", "p", "u", "t">>), Raw(<<"[", "r", "o", "l", "e", "=", "\"", "t", "e", "x", "t", "b", "o", "x", "\"", "]">>),
                        Raw(<<"[", "r", "o", "l", "e", "=", "\"", "s", "e", "a", "r", "c", "h", "b", "o", "x", "\"", "]">>)>>
                 ELSE <<>>
        link == IF Includes(low, <<"l", "i", "n", "k">>)
                THEN <<Raw(<<"a">>), Raw(<<"[", "r", "o", "l", "e", "=", "\"", "l", "i", "n", "k", "\"", "]">>)>>
                ELSE <<>>
        parsed == IF useAI /\ ai.kind = "text" THEN parseAIStrategies(ai.text) ELSE <<>>
        aiStrategies == [i \in DOMAIN parsed |-> Raw(parsed[i])]
    IN  basic \o button \o input \o link \o aiStrategies

Probe(sel, timeout) == [selector |-> sel, timeout |-> timeout]

IdleLoc ==
    [pc |-> "idle", description |-> <<>>, timeout |-> 0, useAI |-> FALSE,
     fallbackStrategies |-> <<>>, cachedLocator |-> NoSelector, pageAtStart |-> <<>>,
     ai |-> AIError, aiConsulted |-> FALSE, generated |-> FALSE,
     allStrategies |-> <<>>, idx |-> 0, probes |-> <<>>, elapsed |-> 0,
     outcome |-> "none", selector |-> NoSelector, error |-> <<>>]

\* (variant) the cache is not consulted
GetLocatorStart_IgnoresCache(description, timeout, useAI, fallbackStrategies) ==
    /\ loc.pc \in {"idle", "done"}
    /\ loc' = [IdleLoc EXCEPT !.pc = "generate", !.description = description,
                              !.timeout = timeout, !.useAI = useAI,
                              !.fallbackStrategies = fallbackStrategies,
                              !.pageAtStart = pageDelay]
    /\ UNCHANGED <<locatorCache, pageDelay>>
    /\ UNCHANGED <<historyVars, sw, envVars, visualVars>>

\* getLocator, lines 336-347: read the cache and probe the cached selector
GetLocatorStart(description, timeout, useAI, fallbackStrategies) ==
    LET cachedLocator == locatorCache[description]
        hit == cachedLocator # NoSelector
               /\ isElementVisible(pageDelay, cachedLocator, CacheProbeTimeout)
        spent == IF cachedLocator = NoSelector THEN 0
                 ELSE ProbeTime(pageDelay, cachedLocator, CacheProbeTimeout)
        call == [IdleLoc EXCEPT !.description = description, !.timeout = timeout,
                                !.useAI = useAI, !.fallbackStrategies = fallbackStrategies,
                                !.cachedLocator = cachedLocator, !.pageAtStart = pageDelay,
                                !.probes = IF cachedLocator = NoSelector THEN <<>>
                                           ELSE <<Probe(cachedLocator, CacheProbeTimeout)>>,
                                !.elapsed = spent]
    IN  /\ loc.pc \in {"idle", "done"}
        /\ pageDelay' = Elapse(pageDelay, spent)
        /\ loc' = IF hit
                  THEN [call EXCEPT !.pc = "done", !.outcome = "found", !.selector = cachedLocator]
                  ELSE [call EXCEPT !.pc = "generate"]
        /\ UNCHANGED locatorCache
        /\ UNCHANGED <<historyVars, sw, envVars, visualVars>>

\* getLocator, lines 349-351: build the candidate list
GetLocatorGenerate(ai) ==
    /\ loc.pc = "generate"
    /\ ~loc.useAI => ai = AIError
    /\ loc' = [loc EXCEPT !.pc = "probe", !.ai = ai, !.aiConsulted = loc.useAI,
                          !.generated = TRUE, !.idx = 1,
                          !.allStrategies =
                              generateFallbackStrategies(loc.description, loc.useAI, ai)
                              \o loc.fallbackStrategies]
    /\ UNCHANGED <<locatorCache, pageDelay>>
    /\ UNCHANGED <<historyVars, sw, envVars, visualVars>>

\* (variant) an entry that is in the cache already is not overwritten
GetLocatorProbe_KeepsStale ==
    LET strategy == loc.allStrategies[loc.idx]
        visible == isElementVisible(pageDelay, strategy, loc.timeout)
        spent == ProbeTime(pageDelay, strategy, loc.timeout)
        probed == [loc EXCEPT !.probes = Append(loc.probes, Probe(strategy, loc.timeout)),
                              !.elapsed = loc.elapsed + spent]
    IN  /\ loc.pc = "probe"
        /\ loc.idx <= Len(loc.allStrategies)
        /\ pageDelay' = Elapse(pageDelay, spent)
        /\ locatorCache' = IF visible /\ locatorCache[loc.description] = NoSelector
                           THEN [locatorCache EXCEPT ![loc.description] = strategy]
                           ELSE locatorCache
        /\ loc' = IF visible
                  THEN [probed EXCEPT !.pc = "done", !.outcome = "found", !.selector = strategy]
                  ELSE [probed EXCEPT !.idx = loc.idx + 1]
        /\ UNCHANGED <<historyVars, sw, envVars, visualVars>>

\* (variant) a strategy that fails is tried again and the loop index never advances
GetLocatorProbe_RetrySame ==
    LET strategy == loc.allStrategies[loc.idx]
        visible == isElementVisible(pageDelay, strategy, loc.timeout)
        spent == ProbeTime(pageDelay, strategy, loc.timeout)
        probed == [loc EXCEPT !.probes = Append(loc.probes, Probe(strategy, loc.timeout)),
                              !.elapsed = loc.elapsed + spent]
    IN  /\ loc.pc = "probe"
        /\ loc.idx <= Len(loc.allStrategies)
        /\ pageDelay' = Elapse(pageDelay, spent)
        /\ locatorCache' = IF visible
                           THEN [locatorCache EXCEPT ![loc.description] = strategy]
                           ELSE locatorCache
        /\ loc' = IF visible
                  THEN [probed EXCEPT !.pc = "done", !.outcome = "found", !.selector = strategy]
                  ELSE loc
        /\ UNCHANGED <<historyVars, sw, envVars, visualVars>>

\* getLocator, lines 354-365: one iteration of the loop over allStrategies
GetLocatorProbe ==
    LET strategy == loc.allStrategies[loc.idx]
        visible == isElementVisible(pageDelay, strategy, loc.timeout)
        spent == ProbeTime(pageDelay, strategy, loc.timeout)
        probed == [loc EXCEPT !.probes = Append(loc.probes, Probe(strategy, loc.timeout)),
                              !.elapsed = loc.elapsed + spent]
    IN  /\ loc.pc = "probe"
        /\ loc.idx <= Len(loc.allStrategies)
        /\ pageDelay' = Elapse(pageDelay, spent)
        /\ locatorCache' = IF visible
                           THEN [locatorCache EXCEPT ![loc.description] = strategy]
                           ELSE locatorCache
        /\ loc' = IF visible
                  THEN [probed EXCEPT !.pc = "done", !.outcome = "found", !.selector = strategy]
                  ELSE [probed EXCEPT !.idx = loc.idx + 1]
        /\ UNCHANGED <<historyVars, sw, envVars, visualVars>>

\* getLocator, lines 367-371: no strategy worked
GetLocatorThrow ==
    /\ loc.pc = "probe"
    /\ loc.idx > Len(loc.allStrategies)
    /\ loc' = [loc EXCEPT !.pc = "done", !.outcome = "notfound",
                          !.error = [description |-> loc.description]]
    /\ UNCHANGED <<locatorCache, pageDelay>>
    /\ UNCHANGED <<historyVars, sw, envVars, visualVars>>

\* clearCache
clearCache ==
    /\ loc.pc \in {"idle", "done"}
    /\ locatorCache # [d \in Descriptions |-> NoSelector]
    /\ locatorCache' = [d \in Descriptions |-> NoSelector]
    /\ UNCHANGED <<pageDelay, loc>>
    /\ UNCHANGED <<historyVars, sw, envVars, visualVars>>

\* the application under test redraws between two calls
PageChange(page) ==
    /\ loc.pc \in {"idle", "done"}
    /\ page # pageDelay
    /\ pageDelay' = page
    /\ loc' = IdleLoc
    /\ UNCHANGED locatorCache
    /\ UNCHANGED <<historyVars, sw, envVars, visualVars>>

LocatorStep ==
    \/ \E ai \in AIReplies : GetLocatorGenerate(ai)
    \/ GetLocatorProbe
    \/ GetLocatorThrow

LocatorNext ==
    \/ \E d \in Descriptions, useAI \in BOOLEAN, fb \in FallbackLists :
           GetLocatorStart(d, DefaultTimeout, useAI, fb)
    \/ \E ai \in AIReplies : GetLocatorGenerate(ai)
    \/ GetLocatorProbe
    \/ GetLocatorThrow
    \/ clearCache
    \/ \E page \in InitialPages : PageChange(page)

----------------------------------------------------------------------------
(* SmartWaits: texts *)

\* the three quote characters; the back quote is written "backquote"
QuoteChars == {"'", "\"", "backquote"}

\* \s* from position i: the first position that holds no whitespace
RECURSIVE SkipWhitespace(_, _)
SkipWhitespace(str, i) ==
    IF i <= Len(str) /\ str[i] \in Whitespace THEN SkipWhitespace(str, i + 1) ELSE i

\* a run of characters that are no quotes, from position i: the first
\* position that holds a quote character
RECURSIVE SkipUnquoted(_, _)
SkipUnquoted(str, i) ==
    IF i <= Len(str) /\ str[i] \notin QuoteChars THEN SkipUnquoted(str, i + 1) ELSE i

\* a quote, one or more characters that are no quotes, a quote, at
\* position i: the position of the closing quote, or 0
QuotedEnd(str, i) ==
    IF i <= Len(str) /\ str[i] \in QuoteChars
       /\ SkipUnquoted(str, i + 1) > i + 1 /\ SkipUnquoted(str, i + 1) <= Len(str)
    THEN SkipUnquoted(str, i + 1) ELSE 0

LitWaitForResponse == <<"w", "a", "i", "t", "F", "o", "r", "R", "e", "s", "p", "o", "n", "s", "e">>

LitWaitForLoadState == <<"w", "a", "i", "t", "F", "o", "r", "L", "o", "a", "d", "S", "t", "a", "t", "e">>

LitUrl == <<"u", "r", "l">>

LitFunction == <<"f", "u", "n", "c", "t", "i", "o", "n">>

\* the match of executeSmartWait, line 189, succeeds: waitForResponse(
\* followed by a quoted text and )
ResponseMatch(waitCode) ==
    \E i \in 1..Len(waitCode) :
        LET q == i + Len(LitWaitForResponse) + 1
            e == QuotedEnd(waitCode, q)
        IN  /\ StartsWithAt(waitCode, i, LitWaitForResponse \o <<"(">>)
            /\ e # 0
            /\ StartsWithAt(waitCode, e + 1, <<")">>)

\* the match of executeCustomCondition, line 206, succeeds: url, optional
\* whitespace, ===, optional whitespace, a quoted text
UrlMatch(condition) ==
    \E i \in 1..Len(condition) :
        LET j == SkipWhitespace(condition, i + Len(LitUrl))
            k == SkipWhitespace(condition, j + 3)
        IN  /\ StartsWithAt(condition, i, LitUrl)
            /\ StartsWithAt(condition, j, <<"=", "=", "=">>)
            /\ QuotedEnd(condition, k) # 0

----------------------------------------------------------------------------
(* SmartWaits: data *)

\* one tick is the 100 ms of page.waitForTimeout(100)
TickMs == 100

\* the timeout argument, in ticks
WaitTimeouts == {2, 3}

\* what aiEngine.generateSmartWait does: throws, or returns a text
WaitAIError == [kind |-> "error", text |-> <<>>]

WaitAITexts == {<<>>,
                <<"w", "a", "i", "t", "F", "o", "r", "L", "o", "a", "d", "S", "t", "a", "t", "e">>,
                <<"w", "a", "i", "t", "F", "o", "r", "R", "e", "s", "p", "o", "n", "s", "e", "(", "'", "/", "a", "p", "i", "'", ")">>,
                <<"w", "a", "i", "t", "F", "o", "r", "L", "o", "a", "d", "S", "t", "a", "t", "e", " ", "w", "a", "i", "t", "F", "o", "r", "R", "e", "s", "p", "o", "n", "s", "e", "(", "x", ")">>}

WaitAIReplies == {WaitAIError} \cup {[kind |-> "text", text |-> x] : x \in WaitAITexts}

\* options.customConditions
CondUrl == <<"u", "r", "l", " ", "=", "=", "=", " ", "'", "/", "h", "o", "m", "e", "'">>

CondFunction == <<"f", "u", "n", "c", "t", "i", "o", "n", "(", ")", "{", "}">>

CondArrow == <<"(", ")", "=", ">", "o", "k">>

ConditionLists == SeqsUpTo({CondUrl, CondFunction, CondArrow}, MaxConditions)

\* locator.boundingBox(): a box, or null
Box(x, y, w, h) == [x |-> x, y |-> y, width |-> w, height |-> h]

NoBox == Box(-1, -1, -1, -1)

\* coordinates in tenths of a unit
BoxSamples == {Box(0, 0, 100, 100), Box(5, 0, 100, 100), Box(10, 0, 100, 100),
               Box(0, 0, 100, 120), NoBox}

IdleWait ==
    [op |-> "none", pc |-> "idle", phase |-> "none", timeout |-> 0, elapsed |-> 0, left |-> 0,
     useAI |-> FALSE, customConditions |-> <<>>, condIdx |-> 0, smartWaitCode |-> <<>>,
     stableCount |-> 0, previousBox |-> NoBox, recent |-> <<>>, animLeft |-> 0,
     warnings |-> <<>>, evaluated |-> <<>>]

Returned(w) == [w EXCEPT !.pc = "returned", !.phase = "none", !.left = 0]

Threw(w) == [w EXCEPT !.pc = "threw", !.phase = "none", !.left = 0]

Warn(w, msg) == [w EXCEPT !.warnings = Append(w.warnings, msg)]

Block(w, phase) == [w EXCEPT !.phase = phase, !.left = w.timeout]

----------------------------------------------------------------------------
(* SmartWaits: what follows each await *)

\* executeCustomCondition, lines 211-214, for customConditions[w.condIdx],
\* then the rest of the loop of aiEnhancedWait (lines 153-155)
RECURSIVE EnterCondition(_)
EnterFunctionPart(w) ==
    IF Includes(w.customConditions[w.condIdx], LitFunction)
    THEN Block(w, "function")
    ELSE EnterCondition([w EXCEPT !.condIdx = w.condIdx + 1])

\* executeCustomCondition, lines 203-210, for customConditions[w.condIdx]
EnterCondition(w) ==
    IF w.condIdx > Len(w.customConditions) THEN Returned(w)
    ELSE LET c == w.customConditions[w.condIdx]
             e == [w EXCEPT !.evaluated = Append(w.evaluated, w.condIdx)]
         IN  IF Includes(c, LitUrl) /\ UrlMatch(c)
             THEN Block(e, "url")
             ELSE EnterFunctionPart(e)

EnterConditions(w) == EnterCondition([w EXCEPT !.condIdx = 1])

\* executeSmartWait, lines 187-193
EnterResponsePart(w) ==
    IF Includes(w.smartWaitCode, LitWaitForResponse) /\ ResponseMatch(w.smartWaitCode)
    THEN Block(w, "response")
    ELSE EnterConditions(w)

\* aiEnhancedWait, lines 148-150, and executeSmartWait, lines 184-186
EnterSmartWait(w) ==
    IF w.smartWaitCode = <<>> THEN EnterConditions(w)
    ELSE IF Includes(w.smartWaitCode, LitWaitForLoadState) THEN Block(w, "loadstate")
    ELSE EnterResponsePart(w)

\* the awaited Playwright call of phase w.phase resolves
AfterResolve(w) ==
    CASE w.phase = "primary" -> IF w.useAI THEN [w EXCEPT !.phase = "ai", !.left = 0]
                                ELSE Returned(w)
      [] w.phase = "loadstate" -> EnterResponsePart(w)
      [] w.phase = "response" -> EnterConditions(w)
      [] w.phase = "url" -> EnterFunctionPart(w)
      [] w.phase = "function" -> EnterCondition([w EXCEPT !.condIdx = w.condIdx + 1])
      [] w.phase = "networkidle" -> Returned(w)
      [] w.phase = "apiresponse" -> Returned(w)

\* (variant) a custom condition that times out fails the call
AfterReject_CustomConditionFatal(w) ==
    CASE w.phase = "primary" -> Threw(w)
      [] w.phase = "loadstate" -> EnterConditions(Warn(w, "Smart wait execution failed"))
      [] w.phase = "response" -> EnterConditions(Warn(w, "Smart wait execution failed"))
      [] w.phase = "url" -> Threw(w)
      [] w.phase = "function" -> Threw(w)
      [] w.phase = "networkidle" -> Returned(Warn(w, "Network idle wait timeout"))
      [] w.phase = "apiresponse" -> Threw(w)

\* the awaited Playwright call of phase w.phase rejects with a TimeoutError
AfterReject(w) ==
    CASE w.phase = "primary" -> Threw(w)
      [] w.phase = "loadstate" -> EnterConditions(Warn(w, "Smart wait execution failed"))
      [] w.phase = "response" -> EnterConditions(Warn(w, "Smart wait execution failed"))
      [] w.phase = "url" ->
             EnterCondition([Warn(w, "Custom condition failed") EXCEPT !.condIdx = w.condIdx + 1])
      [] w.phase = "function" ->
             EnterCondition([Warn(w, "Custom condition failed") EXCEPT !.condIdx = w.condIdx + 1])
      [] w.phase = "networkidle" -> Returned(Warn(w, "Network idle wait timeout"))
      [] w.phase = "apiresponse" -> Threw(w)

TimedPhases == {"primary", "loadstate", "response", "url", "function", "networkidle", "apiresponse"}

----------------------------------------------------------------------------
(* SmartWaits: operations *)

WaitFree == sw.pc \in {"idle", "returned", "threw"}

NewWait(op, timeout) == [IdleWait EXCEPT !.op = op, !.pc = "running", !.timeout = timeout]

\* waitForElement, lines 31-35: locator.waitFor({state, timeout})
WaitForElementStart(timeout, useAI, customConditions) ==
    /\ WaitFree
    /\ sw' = Block([NewWait("waitForElement", timeout) EXCEPT
                       !.useAI = useAI, !.customConditions = customConditions], "primary")
    /\ UNCHANGED <<historyVars, locatorVars, envVars, visualVars>>

\* aiEnhancedWait, lines 144-158: the suggestion call answers `ai`; when it
\* throws, the catch of aiEnhancedWait logs a warning and the call returns
GenerateSmartWait(ai) ==
    /\ sw.pc = "running"
    /\ sw.phase = "ai"
    /\ sw' = IF ai.kind = "error"
             THEN Returned(Warn(sw, "AI-enhanced wait failed, using basic wait"))
             ELSE EnterSmartWait([sw EXCEPT !.smartWaitCode = ai.text])
    /\ UNCHANGED <<historyVars, locatorVars, envVars, visualVars>>

\* waitForNetworkIdle, lines 52-54
WaitForNetworkIdleStart(timeout) ==
    /\ WaitFree
    /\ sw' = Block(NewWait("waitForNetworkIdle", timeout), "networkidle")
    /\ UNCHANGED <<historyVars, locatorVars, envVars, visualVars>>

\* waitForAPIResponse, lines 64-66
WaitForAPIResponseStart(timeout) ==
    /\ WaitFree
    /\ sw' = Block(NewWait("waitForAPIResponse", timeout), "apiresponse")
    /\ UNCHANGED <<historyVars, locatorVars, envVars, visualVars>>

\* a Playwright wait that takes a timeout: the awaited condition holds
AwaitResolve ==
    /\ sw.pc = "running"
    /\ sw.phase \in TimedPhases
    /\ sw' = AfterResolve(sw)
    /\ UNCHANGED <<historyVars, locatorVars, envVars, visualVars>>

\* ... the condition does not hold yet and the timeout has not elapsed
AwaitTick ==
    /\ sw.pc = "running"
    /\ sw.phase \in TimedPhases
    /\ sw.left > 0
    /\ sw.elapsed < MaxTicks
    /\ sw' = [sw EXCEPT !.elapsed = sw.elapsed + 1, !.left = sw.left - 1]
    /\ UNCHANGED <<historyVars, locatorVars, envVars, visualVars>>

\* ... the timeout has elapsed: the wait rejects
AwaitTimeout ==
    /\ sw.pc = "running"
    /\ sw.phase \in TimedPhases
    /\ sw.left = 0
    /\ sw' = AfterReject(sw)
    /\ UNCHANGED <<historyVars, locatorVars, envVars, visualVars>>

Forever == -1

\* document.getAnimations() as page.evaluate finds it: none, animations that
\* finish after some ticks, a cancelled one (its promise rejects), one that
\* never finishes, or the evaluate call itself fails
AnimationStates == {[kind |-> "none", ticks |-> 0], [kind |-> "finishing", ticks |-> 1],
                    [kind |-> "finishing", ticks |-> 2], [kind |-> "cancelled", ticks |-> 0],
                    [kind |-> "endless", ticks |-> Forever], [kind |-> "evaluateFails", ticks |-> 0]}

\* waitForAnimations, lines 77-92: page.evaluate(...) is awaited without a timeout
WaitForAnimationsStart(timeout, animations) ==
    LET w == NewWait("waitForAnimations", timeout)
    IN  /\ WaitFree
        /\ sw' = CASE animations.kind = "evaluateFails" -> Returned(Warn(w, "Animation wait failed"))
                   [] animations.kind \in {"none", "cancelled"} -> [w EXCEPT !.phase = "settle"]
                   [] OTHER -> [w EXCEPT !.phase = "animating", !.animLeft = animations.ticks]
        /\ UNCHANGED <<historyVars, locatorVars, envVars, visualVars>>

\* the promise of page.evaluate is pending while an animation runs
AnimationTick ==
    /\ sw.pc = "running"
    /\ sw.phase = "animating"
    /\ sw.elapsed < MaxTicks
    /\ sw' = IF sw.animLeft = Forever THEN [sw EXCEPT !.elapsed = sw.elapsed + 1]
             ELSE IF sw.animLeft = 1
             THEN [sw EXCEPT !.elapsed = sw.elapsed + 1, !.animLeft = 0, !.phase = "settle"]
             ELSE [sw EXCEPT !.elapsed = sw.elapsed + 1, !.animLeft = sw.animLeft - 1]
    /\ UNCHANGED <<historyVars, locatorVars, envVars, visualVars>>

\* waitForAnimations, lines 94-96: page.waitForTimeout(100)
AnimationSettle ==
    /\ sw.pc = "running"
    /\ sw.phase = "settle"
    /\ sw' = Returned([sw EXCEPT !.elapsed = sw.elapsed + 1])
    /\ UNCHANGED <<historyVars, locatorVars, envVars, visualVars>>

requiredStableChecks == 3

\* the deltas of lines 115-119 are below 1 unit (10 tenths)
SameBox(previousBox, currentBox) ==
    /\ previousBox # NoBox
    /\ currentBox # NoBox
    /\ Abs(previousBox.x - currentBox.x) < 10
    /\ Abs(previousBox.y - currentBox.y) < 10
    /\ Abs(previousBox.width - currentBox.width) < 10
    /\ Abs(previousBox.height - currentBox.height) < 10

\* waitForElementStable, lines 105-109; when boundingBox() throws, the catch
\* logs a warning
WaitForElementStableStart(timeout, box, throws) ==
    LET w == NewWait("waitForElementStable", timeout)
    IN  /\ WaitFree
        /\ sw' = IF throws THEN Returned(Warn(w, "Element stability check failed"))
                 ELSE [w EXCEPT !.phase = "sampling", !.previousBox = box, !.recent = <<box>>]
        /\ UNCHANGED <<historyVars, locatorVars, envVars, visualVars>>

\* the boxes sampled last, at most requiredStableChecks + 1 of them
Recent(boxes, currentBox) ==
    LET all == Append(boxes, currentBox)
    IN  IF Len(all) > requiredStableChecks + 1 THEN Tail(all) ELSE all

\* (variant) a deviating sample leaves the counter as it is
StableSample_NoReset(currentBox, throws) ==
    LET count == IF SameBox(sw.previousBox, currentBox) THEN sw.stableCount + 1
                 ELSE sw.stableCount
        w == [sw EXCEPT !.elapsed = sw.elapsed + 1, !.stableCount = count,
                        !.previousBox = currentBox, !.recent = Recent(sw.recent, currentBox)]
    IN  /\ sw.pc = "running"
        /\ sw.phase = "sampling"
        /\ sw.elapsed < MaxTicks
        /\ sw' = IF throws
                 THEN Returned(Warn([sw EXCEPT !.elapsed = sw.elapsed + 1],
                                    "Element stability check failed"))
                 ELSE IF count < requiredStableChecks THEN w ELSE Returned(w)
        /\ UNCHANGED <<historyVars, locatorVars, envVars, visualVars>>

\* waitForElementStable, lines 111-126: one iteration of the loop
StableSample(currentBox, throws) ==
    LET count == IF SameBox(sw.previousBox, currentBox) THEN sw.stableCount + 1 ELSE 0
        w == [sw EXCEPT !.elapsed = sw.elapsed + 1, !.stableCount = count,
                        !.previousBox = currentBox, !.recent = Recent(sw.recent, currentBox)]
    IN  /\ sw.pc = "running"
        /\ sw.phase = "sampling"
        /\ sw.elapsed < MaxTicks
        /\ sw' = IF throws
                 THEN Returned(Warn([sw EXCEPT !.elapsed = sw.elapsed + 1],
                                    "Element stability check failed"))
                 ELSE IF count < requiredStableChecks THEN w ELSE Returned(w)
        /\ UNCHANGED <<historyVars, locatorVars, envVars, visualVars>>

\* waitForAllConditions, line 228
WaitForAllConditionsStart(timeout) ==
    /\ WaitFree
    /\ sw' = [NewWait("waitForAllConditions", timeout) EXCEPT !.phase = "polling"]
    /\ UNCHANGED <<historyVars, locatorVars, envVars, visualVars>>

\* waitForAllConditions, lines 230-242: one iteration; the conditions all
\* hold, or not (or one throws), and then the loop sleeps 100 ms
PollConditions(allHold) ==
    /\ sw.pc = "running"
    /\ sw.phase = "polling"
    /\ sw.elapsed < sw.timeout
    /\ sw' = IF allHold THEN Returned(sw) ELSE [sw EXCEPT !.elapsed = sw.elapsed + 1]
    /\ UNCHANGED <<historyVars, locatorVars, envVars, visualVars>>

\* waitForAllConditions, line 244
PollTimeout ==
    /\ sw.pc = "running"
    /\ sw.phase = "polling"
    /\ sw.elapsed >= sw.timeout
    /\ sw' = Threw(sw)
    /\ UNCHANGED <<historyVars, locatorVars, envVars, visualVars>>

WaitsNext ==
    \/ \E timeout \in WaitTimeouts, useAI \in BOOLEAN, conds \in ConditionLists :
           WaitForElementStart(timeout, useAI, conds)
    \/ \E ai \in WaitAIReplies : GenerateSmartWait(ai)
    \/ \E timeout \in WaitTimeouts : WaitForNetworkIdleStart(timeout)
    \/ \E timeout \in WaitTimeouts : WaitForAPIResponseStart(timeout)
    \/ AwaitResolve
    \/ AwaitTick
    \/ AwaitTimeout
    \/ \E timeout \in WaitTimeouts, animations \in AnimationStates :
           WaitForAnimationsStart(timeout, animations)
    \/ AnimationTick
    \/ AnimationSettle
    \/ \E timeout \in WaitTimeouts, box \in BoxSamples, throws \in BOOLEAN :
           WaitForElementStableStart(timeout, box, throws)
    \/ \E box \in BoxSamples, throws \in BOOLEAN : StableSample(box, throws)
    \/ \E timeout \in WaitTimeouts : WaitForAllConditionsStart(timeout)
    \/ \E allHold \in BOOLEAN : PollConditions(allHold)
    \/ PollTimeout

----------------------------------------------------------------------------
(* Construction of the components *)

\* the classes whose constructor runs new AIEngine()
Components == {"SelfHealingLocators", "SmartWaits", "FlakyTestDetector"}

\* AIEngine.constructor: throws when GOOGLE_GEMINI_API_KEY is not set
AIEngineConstructor(key) == IF key THEN "ok" ELSE "threw"

\* new SelfHealingLocators(), new SmartWaits(), new FlakyTestDetector():
\* the exception of new AIEngine() is not caught
Construct(c) ==
    /\ built[c] = "none"
    /\ built' = [built EXCEPT ![c] = AIEngineConstructor(apiKey)]
    /\ UNCHANGED <<apiKey, historyVars, locatorVars, sw, visualVars>>

----------------------------------------------------------------------------
(* VisualValidator: images *)

\* RGBA pixels; the model draws grey pixels (r = g = b) that are opaque, and
\* the pixel that applyIgnoreRegions writes
Black == <<0, 0, 0, 255>>

White == <<255, 255, 255, 255>>

Grey30 == <<30, 30, 30, 255>>

Grey100 == <<100, 100, 100, 255>>

Grey200 == <<200, 200, 200, 255>>

Clear == <<0, 0, 0, 0>>

\* a decoded PNG: data holds the pixels row by row
Image(w, h, data) == [width |-> w, height |-> h, data |-> data]

\* no file at a path
NoImage == Image(0, 0, <<>>)

\* a file that has been opened for writing and holds no complete PNG yet
Truncated == Image(-1, -1, <<>>)

\* the pixel at column x, row y (both from 0)
At(img, x, y) == img.data[y * img.width + x + 1]

Min(a, b) == IF a < b THEN a ELSE b

Max(a, b) == IF a > b THEN a ELSE b

\* an ignore region
Region(x, y, w, h) == [x |-> x, y |-> y, width |-> w, height |-> h]

\* applyIgnoreRegions, lines 280-290: the pixel numbers (y * width + x) that
\* the loops of one region write; a write at a negative index leaves the
\* buffer as it is
Zeroed(image, region) ==
    {y * image.width + x :
        x \in region.x .. (Min(region.x + region.width, image.width) - 1),
        y \in region.y .. (Min(region.y + region.height, image.height) - 1)}
    \cap (0 .. (image.width * image.height - 1))

\* applyIgnoreRegions, lines 273-294: a copy of the image with the pixels of
\* every region set to 0, 0, 0, 0
applyIgnoreRegions(image, ignoreRegions) ==
    LET zeroed == UNION {Zeroed(image, ignoreRegions[i]) : i \in DOMAIN ignoreRegions}
    IN  Image(image.width, image.height,
              [k \in DOMAIN image.data |-> IF (k - 1) \in zeroed THEN Clear ELSE image.data[k]])

----------------------------------------------------------------------------
(* VisualValidator: the pixelmatch call of compareImages, lines 232-244 *)

\* brightness of a pixel after blending with white; exact for grey pixels
\* whose alpha is 0 or 255
Luma(p) == 255 + ((p[1] - 255) * p[4]) \div 255

\* brightness difference of two pixels (colorDelta with yOnly)
BrightnessDelta(p1, p2) == IF p1 = p2 THEN 0 ELSE Luma(p1) - Luma(p2)

\* colorDelta in units of 1/10000: for grey pixels the YIQ distance is
\* 0.5053 * y * y; it is negative when the first pixel is brighter
colorDelta(p1, p2) ==
    LET y == BrightnessDelta(p1, p2)
    IN  IF y > 0 THEN 0 - 5053 * y * y ELSE 5053 * y * y

\* |delta| > maxDelta, where maxDelta = 35215 * threshold * threshold
ExceedsMaxDelta(delta, threshold) ==
    Abs(delta) > (352150000 * threshold[1] * threshold[1]) \div (threshold[2] * threshold[2])

\* the up to 8 pixels adjacent to (x1, y1)
Adjacent(img, x1, y1) ==
    {xy \in (Max(x1 - 1, 0) .. Min(x1 + 1, img.width - 1))
            \X (Max(y1 - 1, 0) .. Min(y1 + 1, img.height - 1)) : xy # <<x1, y1>>}

\* 1 when (x1, y1) lies on the border of the image
OnEdge(img, x1, y1) ==
    IF x1 = 0 \/ x1 = img.width - 1 \/ y1 = 0 \/ y1 = img.height - 1 THEN 1 ELSE 0

\* hasManySiblings: 3 or more adjacent pixels of the same colour
hasManySiblings(img, x1, y1) ==
    OnEdge(img, x1, y1)
    + Cardinality({xy \in Adjacent(img, x1, y1) : At(img, xy[1], xy[2]) = At(img, x1, y1)}) > 2

\* the first adjacent pixel, columns outermost, whose brightness delta is d
FirstWithDelta(img, x1, y1, d) ==
    LET hits == {xy \in Adjacent(img, x1, y1) :
                    BrightnessDelta(At(img, x1, y1), At(img, xy[1], xy[2])) = d}
    IN  CHOOSE xy \in hits : \A o \in hits : xy[1] * img.height + xy[2] <= o[1] * img.height + o[2]

\* antialiased: the pixel has darker and brighter neighbours, at most 2 of
\* its own brightness, and the darkest or the brightest neighbour has 3 or
\* more equal siblings in both images
antialiased(img, x1, y1, img2) ==
    LET deltas == {BrightnessDelta(At(img, x1, y1), At(img, xy[1], xy[2])) :
                       xy \in Adjacent(img, x1, y1)}
        zeroes == OnEdge(img, x1, y1)
                  + Cardinality({xy \in Adjacent(img, x1, y1) :
                        BrightnessDelta(At(img, x1, y1), At(img, xy[1], xy[2])) = 0})
        min == CHOOSE d \in deltas : \A e \in deltas : d <= e
        max == CHOOSE d \in deltas : \A e \in deltas : d >= e
        minXY == FirstWithDelta(img, x1, y1, min)
        maxXY == FirstWithDelta(img, x1, y1, max)
    IN  /\ deltas # {}
        /\ zeroes <= 2
        /\ min < 0
        /\ max > 0
        /\ \/ hasManySiblings(img, minXY[1], minXY[2]) /\ hasManySiblings(img2, minXY[1], minXY[2])
           \/ hasManySiblings(img, maxXY[1], maxXY[2]) /\ hasManySiblings(img2, maxXY[1], maxXY[2])

\* how pixelmatch classifies pixel number k (from 0): "same", "aa" or "diff"
PixelClass(img1, img2, k, threshold) ==
    LET x == k % img1.width
        y == k \div img1.width
    IN  IF ~ExceedsMaxDelta(colorDelta(img1.data[k + 1], img2.data[k + 1]), threshold) THEN "same"
        ELSE IF antialiased(img1, x, y, img2) \/ antialiased(img2, x, y, img1) THEN "aa"
        ELSE "diff"

\* pixelmatch(img1, img2, diff, width, height, {threshold, ...}): the number
\* of pixels that differ and are no anti-aliasing
pixelmatch(img1, img2, threshold) ==
    Cardinality({k \in 0 .. (img1.width * img1.height - 1) :
                    PixelClass(img1, img2, k, threshold) = "diff"})

Red == <<255, 0, 0, 255>>

Green == <<0, 255, 0, 255>>

Yellow == <<255, 255, 0, 255>>

\* drawGrayPixel with alpha 0.1
GrayPixel(p) ==
    LET val == IF p[4] = 255 THEN (2295 + p[1]) \div 10 ELSE 255
    IN  <<val, val, val, 255>>

\* the diff image pixelmatch draws: diffColor, diffColorAlt, the colour of
\* anti-aliasing, or the greyed pixel of the first image
DiffImage(img1, img2, threshold) ==
    IF img1.data = img2.data
    THEN Image(img1.width, img1.height, [k \in DOMAIN img1.data |-> GrayPixel(img1.data[k])])
    ELSE Image(img1.width, img1.height,
               [k \in DOMAIN img1.data |->
                   LET class == PixelClass(img1, img2, k - 1, threshold)
                   IN  CASE class = "diff" ->
                                IF colorDelta(img1.data[k], img2.data[k]) < 0 THEN Green ELSE Red
                         [] class = "aa" -> Yellow
                         [] OTHER -> GrayPixel(img1.data[k])])

----------------------------------------------------------------------------
(* VisualValidator: files and calls *)

\* the runs that share the directories under test-results
Runs == {"r1", "r2"}

VisualKinds == {"visual", "fullpage"}

\* testName, as the pieces of a file name
VisualNames == {<<"home">>}

\* lines 60 and 121
BaselinePath(kind, testName) ==
    testName \o (IF kind = "fullpage" THEN <<"-fullpage">> ELSE <<>>) \o <<".png">>

\* captureElementScreenshot and captureFullPageScreenshot with type current
CurrentPath(kind, testName) ==
    testName \o (IF kind = "fullpage" THEN <<"-fullpage">> ELSE <<>>) \o <<"-current", ".png">>

\* line 252
DiffPath(testName) == testName \o <<"-diff", ".png">>

BaselinePaths == {BaselinePath(k, n) : k \in VisualKinds, n \in VisualNames}

CurrentPaths == {CurrentPath(k, n) : k \in VisualKinds, n \in VisualNames}

DiffPaths == {DiffPath(n) : n \in VisualNames}

\* a VisualComparisonResult; the paths of baseline and current image follow
\* from the arguments of the call
Result(passed, diff, diffPath, threshold) ==
    [passed |-> passed, diff |-> diff, diffPath |-> diffPath, threshold |-> threshold]

NoResult == Result(FALSE, Zero, <<>>, Zero)

\* no call yet
IdleCall ==
    [pc |-> "idle", n |-> 0, kind |-> "visual", testName |-> <<>>, image |-> NoImage,
     threshold |-> Zero, ignoreRegions |-> <<>>, updateBaseline |-> FALSE, via |-> "none",
     result |-> NoResult]

IdleVisual == [r \in Runs |-> IdleCall]

\* (variant) a dimension mismatch is judged against the threshold
compareImages_MismatchUsesThreshold(baseline, current, testName, threshold, ignoreRegions) ==
    IF baseline \in {NoImage, Truncated} \/ current \in {NoImage, Truncated}
    THEN [threw |-> TRUE, result |-> NoResult, written |-> NoImage]
    ELSE [threw |-> FALSE, result |-> Result(FracLeq(One, threshold), One, <<>>, threshold),
          written |-> NoImage]

\* compareImages, lines 199-268: what it returns or that it throws (a file
\* is missing or PNG.sync.read cannot decode it), and the diff image it
\* writes (NoImage: none)
compareImages(baseline, current, testName, threshold, ignoreRegions) ==
    IF baseline \in {NoImage, Truncated} \/ current \in {NoImage, Truncated}
    THEN [threw |-> TRUE, result |-> NoResult, written |-> NoImage]
    ELSE IF baseline.width # current.width \/ baseline.height # current.height
    THEN [threw |-> FALSE, result |-> Result(FALSE, One, <<>>, threshold), written |-> NoImage]
    ELSE LET processedBaseline == applyIgnoreRegions(baseline, ignoreRegions)
             processedCurrent == applyIgnoreRegions(current, ignoreRegions)
             diffPixels == pixelmatch(processedBaseline, processedCurrent, threshold)
             diffPercentage == Frac(diffPixels, baseline.width * baseline.height)
             passed == FracLeq(diffPercentage, threshold)
             writes == ~passed /\ diffPixels > 0
         IN  [threw |-> FALSE,
              result |-> Result(passed, diffPercentage,
                                IF writes THEN DiffPath(testName) ELSE <<>>, threshold),
              written |-> IF writes
                          THEN DiffImage(processedBaseline, processedCurrent, threshold)
                          ELSE NoImage]

\* calls of one run that the model follows
MaxCalls == 2

\* compareVisual, lines 52-59, and compareFullPage, lines 112-120: wait for
\* the element or the page (shown: the wait succeeds), then the screenshot
\* of what the page renders is written to the current path
CompareCapture(r, kind, testName, image, shown, threshold, ignoreRegions, updateBaseline) ==
    LET call == [IdleCall EXCEPT !.n = vv[r].n + 1, !.kind = kind, !.testName = testName,
                                 !.image = image, !.threshold = threshold,
                                 !.ignoreRegions = ignoreRegions,
                                 !.updateBaseline = updateBaseline]
    IN  /\ vv[r].pc \in {"idle", "returned", "threw"}
        /\ vv[r].n < MaxCalls
        /\ vv' = [vv EXCEPT ![r] = [call EXCEPT !.pc = IF shown THEN "captured" ELSE "threw"]]
        /\ screenshotsDir' = IF shown
                             THEN [screenshotsDir EXCEPT ![CurrentPath(kind, testName)] = image]
                             ELSE screenshotsDir
        /\ UNCHANGED <<baselineDir, diffDir>>
        /\ UNCHANGED <<historyVars, locatorVars, sw, envVars>>

\* compareVisual, lines 52-59, and compareFullPage, lines 112-120, as other
\* runs see them: the awaited screenshot call opens the file at the current
\* path, which truncates it, and writes the image later
CaptureOpen(r, kind, testName, image, shown, threshold, ignoreRegions, updateBaseline) ==
    LET call == [IdleCall EXCEPT !.n = vv[r].n + 1, !.kind = kind, !.testName = testName,
                                 !.image = image, !.threshold = threshold,
                                 !.ignoreRegions = ignoreRegions,
                                 !.updateBaseline = updateBaseline]
    IN  /\ vv[r].pc \in {"idle", "returned", "threw"}
        /\ vv[r].n < MaxCalls
        /\ vv' = [vv EXCEPT ![r] = [call EXCEPT !.pc = IF shown THEN "writing" ELSE "threw"]]
        /\ screenshotsDir' = IF shown
                             THEN [screenshotsDir EXCEPT ![CurrentPath(kind, testName)] = Truncated]
                             ELSE screenshotsDir
        /\ UNCHANGED <<baselineDir, diffDir>>
        /\ UNCHANGED <<historyVars, locatorVars, sw, envVars>>

\* ... the image is written and the await of line 173 (188) resolves
CaptureWrite(r) ==
    /\ vv[r].pc = "writing"
    /\ vv' = [vv EXCEPT ![r] = [vv[r] EXCEPT !.pc = "captured"]]
    /\ screenshotsDir' = [screenshotsDir EXCEPT ![CurrentPath(vv[r].kind, vv[r].testName)] =
                              vv[r].image]
    /\ UNCHANGED <<baselineDir, diffDir>>
    /\ UNCHANGED <<historyVars, locatorVars, sw, envVars>>

\* (variant) a comparison never looks for an existing baseline
CompareDecide_AlwaysCreates(r) ==
    /\ vv[r].pc = "captured"
    /\ vv' = [vv EXCEPT ![r] = [vv[r] EXCEPT !.pc = "copy",
                                  !.via = IF vv[r].updateBaseline THEN "update" ELSE "create"]]
    /\ UNCHANGED <<baselineDir, screenshotsDir, diffDir>>
    /\ UNCHANGED <<historyVars, locatorVars, sw, envVars>>

\* lines 63 and 76 (124 and 137): updateBaseline is set, or no file exists
\* at the baseline path
CompareDecide(r) ==
    LET exists == baselineDir[BaselinePath(vv[r].kind, vv[r].testName)] # NoImage
        via == IF vv[r].updateBaseline THEN "update"
               ELSE IF ~exists THEN "create" ELSE "compare"
    IN  /\ vv[r].pc = "captured"
        /\ vv' = [vv EXCEPT ![r] = [vv[r] EXCEPT !.pc = IF via = "compare" THEN "compare" ELSE "copy",
                                                    !.via = via]]
        /\ UNCHANGED <<baselineDir, screenshotsDir, diffDir>>
        /\ UNCHANGED <<historyVars, locatorVars, sw, envVars>>

\* (variant) a created baseline is reported as a failed comparison
CompareCopy_ReportsFailure(r) ==
    LET current == screenshotsDir[CurrentPath(vv[r].kind, vv[r].testName)]
    IN  /\ vv[r].pc = "copy"
        /\ baselineDir' = [baselineDir EXCEPT ![BaselinePath(vv[r].kind, vv[r].testName)] = current]
        /\ vv' = [vv EXCEPT ![r] = [vv[r] EXCEPT !.pc = "returned",
                       !.result = Result(vv[r].via = "update", Zero, <<>>, vv[r].threshold)]]
        /\ UNCHANGED <<screenshotsDir, diffDir>>
        /\ UNCHANGED <<historyVars, locatorVars, sw, envVars>>

\* updateBaseline, lines 299-307, and the return of lines 65-72 or 79-86:
\* fs.copyFileSync(currentPath, baselinePath) throws when the current file
\* is missing
CompareCopy(r) ==
    LET current == screenshotsDir[CurrentPath(vv[r].kind, vv[r].testName)]
    IN  /\ vv[r].pc = "copy"
        /\ baselineDir' = IF current = NoImage THEN baselineDir
                          ELSE [baselineDir EXCEPT ![BaselinePath(vv[r].kind, vv[r].testName)] = current]
        /\ vv' = [vv EXCEPT ![r] =
                     IF current = NoImage THEN [vv[r] EXCEPT !.pc = "threw"]
                     ELSE [vv[r] EXCEPT !.pc = "returned",
                                        !.result = Result(TRUE, Zero, <<>>, vv[r].threshold)]]
        /\ UNCHANGED <<screenshotsDir, diffDir>>
        /\ UNCHANGED <<historyVars, locatorVars, sw, envVars>>

\* lines 89-93 (150-154): compareImages reads both files
CompareImagesStep(r) ==
    LET out == compareImages(baselineDir[BaselinePath(vv[r].kind, vv[r].testName)],
                             screenshotsDir[CurrentPath(vv[r].kind, vv[r].testName)],
                             vv[r].testName, vv[r].threshold, vv[r].ignoreRegions)
    IN  /\ vv[r].pc = "compare"
        /\ vv' = [vv EXCEPT ![r] = IF out.threw THEN [vv[r] EXCEPT !.pc = "threw"]
                                   ELSE [vv[r] EXCEPT !.pc = "returned", !.result = out.result]]
        /\ diffDir' = IF out.written = NoImage THEN diffDir
                      ELSE [diffDir EXCEPT ![DiffPath(vv[r].testName)] = out.written]
        /\ UNCHANGED <<baselineDir, screenshotsDir>>
        /\ UNCHANGED <<historyVars, locatorVars, sw, envVars>>

----------------------------------------------------------------------------
(* Specifications *)

InitialFiles == {FileMissing, FileGarbage, FileObject, FileArray(<<>>)}

\* no cache entry for any description
EmptyCache == [d \in Descriptions |-> NoSelector]

\* the execution history as it is found, one detector
InitHistory ==
    /\ resultsFile \in InitialFiles
    /\ wpc = [w \in Workers |-> "idle"]
    /\ wResults = [w \in Workers |-> [isArray |-> TRUE, recs |-> <<>>]]
    /\ wPending = [w \in Workers |-> TestResult("login", "passed", 0)]
    /\ recorded = {}
    /\ stamp = 0
    /\ opOut = NoOp
    /\ locatorCache = EmptyCache
    /\ pageDelay = [sel \in PageSelectors |-> Never]
    /\ loc = IdleLoc
    /\ sw = IdleWait
    /\ apiKey = TRUE
    /\ built = [c \in Components |-> "ok"]
    /\ baselineDir = [p \in BaselinePaths |-> NoImage]
    /\ screenshotsDir = [p \in CurrentPaths |-> NoImage]
    /\ diffDir = [p \in DiffPaths |-> NoImage]
    /\ vv = IdleVisual

\* an empty or missing log shared by the workers
InitRace ==
    /\ resultsFile \in {FileMissing, FileArray(<<>>)}
    /\ wpc = [w \in Workers |-> "idle"]
    /\ wResults = [w \in Workers |-> [isArray |-> TRUE, recs |-> <<>>]]
    /\ wPending = [w \in Workers |-> TestResult("login", "passed", 0)]
    /\ recorded = {}
    /\ stamp = 0
    /\ opOut = NoOp
    /\ locatorCache = EmptyCache
    /\ pageDelay = [sel \in PageSelectors |-> Never]
    /\ loc = IdleLoc
    /\ sw = IdleWait
    /\ apiKey = TRUE
    /\ built = [c \in Components |-> "ok"]
    /\ baselineDir = [p \in BaselinePaths |-> NoImage]
    /\ screenshotsDir = [p \in CurrentPaths |-> NoImage]
    /\ diffDir = [p \in DiffPaths |-> NoImage]
    /\ vv = IdleVisual

\* a new resolver on some page
InitLocator ==
    /\ resultsFile = FileMissing
    /\ wpc = [w \in Workers |-> "idle"]
    /\ wResults = [w \in Workers |-> [isArray |-> TRUE, recs |-> <<>>]]
    /\ wPending = [w \in Workers |-> TestResult("login", "passed", 0)]
    /\ recorded = {}
    /\ stamp = 0
    /\ opOut = NoOp
    /\ locatorCache = EmptyCache
    /\ pageDelay \in InitialPages
    /\ loc = IdleLoc
    /\ sw = IdleWait
    /\ apiKey = TRUE
    /\ built = [c \in Components |-> "ok"]
    /\ baselineDir = [p \in BaselinePaths |-> NoImage]
    /\ screenshotsDir = [p \in CurrentPaths |-> NoImage]
    /\ diffDir = [p \in DiffPaths |-> NoImage]
    /\ vv = IdleVisual

\* no wait in flight
InitWaits ==
    /\ resultsFile = FileMissing
    /\ wpc = [w \in Workers |-> "idle"]
    /\ wResults = [w \in Workers |-> [isArray |-> TRUE, recs |-> <<>>]]
    /\ wPending = [w \in Workers |-> TestResult("login", "passed", 0)]
    /\ recorded = {}
    /\ stamp = 0
    /\ opOut = NoOp
    /\ locatorCache = EmptyCache
    /\ pageDelay = [sel \in PageSelectors |-> Never]
    /\ loc = IdleLoc
    /\ sw = IdleWait
    /\ apiKey = TRUE
    /\ built = [c \in Components |-> "ok"]
    /\ baselineDir = [p \in BaselinePaths |-> NoImage]
    /\ screenshotsDir = [p \in CurrentPaths |-> NoImage]
    /\ diffDir = [p \in DiffPaths |-> NoImage]
    /\ vv = IdleVisual

NewResults == {TestResult(n, s, 0) : n \in TestNames, s \in Statuses}

\* one worker; the file may be unreadable at any load
HistoryNext ==
    \/ \E r \in NewResults, readOk \in BOOLEAN : RecordLoad("w1", r, readOk)
    \/ RecordSave("w1")
    \/ \E readOk \in BOOLEAN, ai \in [TestNames -> AIOutcomes] : detectFlakyTests(readOk, ai)
    \/ \E n \in TestNames, readOk \in BOOLEAN, ai \in [TestNames -> AIOutcomes] :
           getFlakyTestRecommendations(n, readOk, ai)

SpecHistory == InitHistory /\ [][HistoryNext]_vars

\* several workers sharing the log; every read succeeds
RaceNext ==
    \/ \E w \in Workers, r \in NewResults : RecordLoad(w, r, TRUE)
    \/ \E w \in Workers : RecordSave(w)

SpecRace == InitRace /\ [][RaceNext]_vars

SpecLocator == InitLocator /\ [][LocatorNext]_vars

\* calls on a page that stays as it is
CallNext ==
    \/ \E d \in Descriptions, useAI \in BOOLEAN, fb \in FallbackLists :
           GetLocatorStart(d, DefaultTimeout, useAI, fb)
    \/ LocatorStep

\* a call in flight keeps running: every await of getLocator settles
FairSpecLocator ==
    /\ InitLocator
    /\ [][CallNext]_vars
    /\ WF_vars(LocatorStep)

SpecWaits == InitWaits /\ [][WaitsNext]_vars

\* a history of one test: `passed` passed runs, then failed runs
History(total, passed) ==
    [i \in 1..total |-> TestResult("login", IF i <= passed THEN "passed" ELSE "failed", i)]

\* a detector that finds a history of up to MaxRuns runs
InitConfidence ==
    /\ resultsFile \in {FileArray(History(total, passed)) :
                            total \in 1..MaxRuns, passed \in 0..MaxRuns}
    /\ wpc = [w \in Workers |-> "idle"]
    /\ wResults = [w \in Workers |-> [isArray |-> TRUE, recs |-> <<>>]]
    /\ wPending = [w \in Workers |-> TestResult("login", "passed", 0)]
    /\ recorded = {}
    /\ stamp = 0
    /\ opOut = NoOp
    /\ locatorCache = EmptyCache
    /\ pageDelay = [sel \in PageSelectors |-> Never]
    /\ loc = IdleLoc
    /\ sw = IdleWait
    /\ apiKey = TRUE
    /\ built = [c \in Components |-> "ok"]
    /\ baselineDir = [p \in BaselinePaths |-> NoImage]
    /\ screenshotsDir = [p \in CurrentPaths |-> NoImage]
    /\ diffDir = [p \in DiffPaths |-> NoImage]
    /\ vv = IdleVisual

\* the reports of the history
ConfidenceNext ==
    \/ \E ai \in [TestNames -> AIOutcomes] : detectFlakyTests(TRUE, ai)
    \/ \E n \in TestNames, ai \in [TestNames -> AIOutcomes] :
           getFlakyTestRecommendations(n, TRUE, ai)

SpecConfidence == InitConfidence /\ [][ConfidenceNext]_vars

\* error messages of failed runs; the number differs from run to run
ErrorKinds == {"none", "TimeoutError", "timeout", "AssertionError"}

ErrorText(kind, i) ==
    CASE kind = "TimeoutError" -> <<"T", "i", "m", "e", "o", "u", "t", "E", "r", "r", "o", "r", " ", "a", "t", " ", "f", "(", "a", ":">> \o NumberToString(i) \o <<")">>
      [] kind = "timeout" -> <<"T", "e", "s", "t", " ", "t", "i", "m", "e", "o", "u", "t", " ", "o", "f", " ">> \o NumberToString(1000 * i) \o <<"m", "s", " ", "e", "x", "c", "e", "e", "d", "e", "d">>
      [] kind = "AssertionError" -> <<"A", "s", "s", "e", "r", "t", "i", "o", "n", "E", "r", "r", "o", "r", " ", "a", "t", " ", "g", "(", "b", ":">> \o NumberToString(i) \o <<")">>
      [] OTHER -> <<>>

TextChromium == <<"c", "h", "r", "o", "m", "i", "u", "m">>

TextFirefox == <<"f", "i", "r", "e", "f", "o", "x">>

TextLinux == <<"l", "i", "n", "u", "x">>

TextWindows == <<"w", "i", "n", "d", "o", "w", "s">>

\* a history of one test: `passed` passed runs, then failed runs with an
\* error of the kind; with env "split" the runs alternate between two
\* browsers and the second half runs on another OS; with load "uneven" the
\* failed runs take longer and were retried
ReportHistory(total, passed, kind, env, load) ==
    [i \in 1..total |->
        Run("login", IF i <= passed THEN "passed" ELSE "failed", i,
            IF load = "uneven" /\ i > passed THEN 9 ELSE 1,
            IF load = "uneven" /\ i > passed THEN 3 ELSE 0,
            IF i <= passed THEN <<>> ELSE ErrorText(kind, i),
            IF env = "split" THEN (IF i % 2 = 1 THEN TextChromium ELSE TextFirefox) ELSE <<>>,
            IF env = "split" THEN (IF 2 * i <= total THEN TextLinux ELSE TextWindows) ELSE <<>>)]

\* the suggestion call throws, or returns an entry with reasons
ReportAIOutcomes ==
    {[kind |-> "error", flakyScore |-> Zero],
     [kind |-> "entry", flakyScore |-> Zero, reasons |-> <<<<"U", "n", "s", "t", "a", "b", "l", "e", " ", "s", "e", "l", "e", "c", "t", "o", "r">>>>]}

ReportAI == {ai \in [TestNames -> ReportAIOutcomes \cup {AIAbsent}] :
                ai["login"] # AIAbsent /\ ai["search"] = AIAbsent}

\* a detector that finds a history with errors and environment tags
InitReport ==
    /\ resultsFile \in {FileArray(ReportHistory(total, passed, kind, env, load)) :
                            total \in 1..MaxRuns, passed \in 0..MaxRuns, kind \in ErrorKinds,
                            env \in {"none", "split"}, load \in {"steady", "uneven"}}
    /\ wpc = [w \in Workers |-> "idle"]
    /\ wResults = [w \in Workers |-> [isArray |-> TRUE, recs |-> <<>>]]
    /\ wPending = [w \in Workers |-> TestResult("login", "passed", 0)]
    /\ recorded = {}
    /\ stamp = 0
    /\ opOut = NoOp
    /\ locatorCache = EmptyCache
    /\ pageDelay = [sel \in PageSelectors |-> Never]
    /\ loc = IdleLoc
    /\ sw = IdleWait
    /\ apiKey = TRUE
    /\ built = [c \in Components |-> "ok"]
    /\ baselineDir = [p \in BaselinePaths |-> NoImage]
    /\ screenshotsDir = [p \in CurrentPaths |-> NoImage]
    /\ diffDir = [p \in DiffPaths |-> NoImage]
    /\ vv = IdleVisual

\* the reports of the history
ReportNext ==
    \/ \E ai \in ReportAI : detectFlakyTests(TRUE, ai)
    \/ \E ai \in ReportAI : getFlakyTestRecommendations("login", TRUE, ai)

SpecReport == InitReport /\ [][ReportNext]_vars

\* histories found by a detector whose suggestion calls all fail
DegradedFiles ==
    {FileArray(<<>>),
     FileArray(<<TestResult("login", "passed", 0), TestResult("login", "failed", 1)>>),
     FileArray(<<TestResult("login", "passed", 0), TestResult("search", "failed", 1),
                 TestResult("search", "failed", 2)>>)}

\* nothing is constructed yet; the key may be missing
InitDegraded ==
    /\ resultsFile \in DegradedFiles
    /\ wpc = [w \in Workers |-> "idle"]
    /\ wResults = [w \in Workers |-> [isArray |-> TRUE, recs |-> <<>>]]
    /\ wPending = [w \in Workers |-> TestResult("login", "passed", 0)]
    /\ recorded = {}
    /\ stamp = 0
    /\ opOut = NoOp
    /\ locatorCache = EmptyCache
    /\ pageDelay \in {page \in InitialPages : page[SelForm] = Never}
    /\ loc = IdleLoc
    /\ sw = IdleWait
    /\ apiKey \in BOOLEAN
    /\ built = [c \in Components |-> "none"]
    /\ baselineDir = [p \in BaselinePaths |-> NoImage]
    /\ screenshotsDir = [p \in CurrentPaths |-> NoImage]
    /\ diffDir = [p \in DiffPaths |-> NoImage]
    /\ vv = IdleVisual

\* the suggestion call of analyzeTestFlakiness throws for every test
AllFail == {ai \in [TestNames -> AIOutcomes] : \A n \in TestNames : ai[n].kind \in {"error", "absent"}}

\* the components are constructed and used while every suggestion call fails
DegradedNext ==
    \/ \E c \in Components : Construct(c)
    \/ \E d \in Descriptions, useAI \in BOOLEAN, fb \in FallbackLists :
           built["SelfHealingLocators"] = "ok" /\ GetLocatorStart(d, DefaultTimeout, useAI, fb)
    \/ GetLocatorGenerate(AIError)
    \/ GetLocatorProbe
    \/ GetLocatorThrow
    \/ \E ai \in AllFail : built["FlakyTestDetector"] = "ok" /\ detectFlakyTests(TRUE, ai)

SpecDegraded == InitDegraded /\ [][DegradedNext]_vars

\* images a page renders
Img1x1 == Image(1, 1, <<Black>>)

Img2x2 == Image(2, 2, <<Black, Black, Black, Black>>)

\* as Img2x2, the pixel at (1, 1) white
Img2x2Spot == Image(2, 2, <<Black, Black, Black, White>>)

\* as Img2x2, the pixel at (1, 1) a little lighter
Img2x2Faint == Image(2, 2, <<Black, Black, Black, Grey30>>)

\* a dark corner on a white ground, the pixel in the middle grey
ImgCorner100 == Image(3, 3, <<Black, Black, White, Black, Grey100, White, White, White, White>>)

ImgCorner200 == Image(3, 3, <<Black, Black, White, Black, Grey200, White, White, White, White>>)

\* options.threshold; 1/5 is the default of line 34
Thresholds == {<<0, 1>>, <<1, 20>>, <<1, 5>>, <<1, 1>>, <<2, 1>>}

\* options.ignoreRegions
RegionLists ==
    {<<>>, <<Region(1, 1, 1, 1)>>, <<Region(0, 0, 2, 1)>>, <<Region(-1, 1, 2, 1)>>,
     <<Region(0, 0, 5, 5)>>, <<Region(0, 0, 1, 1), Region(1, 1, 1, 1)>>}

\* a validator on empty directories
InitVisual ==
    /\ resultsFile = FileMissing
    /\ wpc = [w \in Workers |-> "idle"]
    /\ wResults = [w \in Workers |-> [isArray |-> TRUE, recs |-> <<>>]]
    /\ wPending = [w \in Workers |-> TestResult("login", "passed", 0)]
    /\ recorded = {}
    /\ stamp = 0
    /\ opOut = NoOp
    /\ locatorCache = EmptyCache
    /\ pageDelay = [sel \in PageSelectors |-> Never]
    /\ loc = IdleLoc
    /\ sw = IdleWait
    /\ apiKey = TRUE
    /\ built = [c \in Components |-> "ok"]
    /\ baselineDir = [p \in BaselinePaths |-> NoImage]
    /\ screenshotsDir = [p \in CurrentPaths |-> NoImage]
    /\ diffDir = [p \in DiffPaths |-> NoImage]
    /\ vv = IdleVisual

\* one run calling compareVisual and compareFullPage
VisualNext ==
    \/ \E kind \in VisualKinds, testName \in VisualNames,
          image \in {Img1x1, Img2x2, Img2x2Spot}, shown \in BOOLEAN,
          threshold \in {<<1, 20>>, <<1, 5>>},
          ignoreRegions \in {<<>>, <<Region(1, 1, 1, 1)>>}, updateBaseline \in BOOLEAN :
           CompareCapture("r1", kind, testName, image, shown, threshold, ignoreRegions,
                          updateBaseline)
    \/ CompareDecide("r1")
    \/ CompareCopy("r1")
    \/ CompareImagesStep("r1")

SpecVisual == InitVisual /\ [][VisualNext]_vars

\* two runs that share the directories call compareVisual and
\* compareFullPage for the same test name
VisualRaceNext ==
    \/ \E r \in Runs, kind \in VisualKinds, image \in {Img2x2, Img2x2Spot}, shown \in BOOLEAN,
          updateBaseline \in BOOLEAN :
           CaptureOpen(r, kind, <<"home">>, image, shown, <<1, 5>>, <<>>, updateBaseline)
    \/ \E r \in Runs : CaptureWrite(r)
    \/ \E r \in Runs : CompareDecide(r)
    \/ \E r \in Runs : CompareCopy(r)
    \/ \E r \in Runs : CompareImagesStep(r)

SpecVisualRace == InitVisual /\ [][VisualRaceNext]_vars

\* a comparison of a stored baseline with a stored screenshot is about to
\* call compareImages, for every pair of images, threshold and region list
InitCompare ==
    /\ resultsFile = FileMissing
    /\ wpc = [w \in Workers |-> "idle"]
    /\ wResults = [w \in Workers |-> [isArray |-> TRUE, recs |-> <<>>]]
    /\ wPending = [w \in Workers |-> TestResult("login", "passed", 0)]
    /\ recorded = {}
    /\ stamp = 0
    /\ opOut = NoOp
    /\ locatorCache = EmptyCache
    /\ pageDelay = [sel \in PageSelectors |-> Never]
    /\ loc = IdleLoc
    /\ sw = IdleWait
    /\ apiKey = TRUE
    /\ built = [c \in Components |-> "ok"]
    /\ diffDir = [p \in DiffPaths |-> NoImage]
    /\ \E kind \in VisualKinds, testName \in VisualNames,
          baseline \in {Img1x1, Img2x2, Img2x2Spot, ImgCorner100, ImgCorner200},
          current \in {Img1x1, Img2x2, Img2x2Spot, Img2x2Faint, ImgCorner100, ImgCorner200},
          threshold \in Thresholds, ignoreRegions \in RegionLists :
           /\ baselineDir = [p \in BaselinePaths |->
                                IF p = BaselinePath(kind, testName) THEN baseline ELSE NoImage]
           /\ screenshotsDir = [p \in CurrentPaths |->
                                   IF p = CurrentPath(kind, testName) THEN current ELSE NoImage]
           /\ vv = [IdleVisual EXCEPT !["r1"] =
                        [IdleCall EXCEPT !.pc = "compare", !.n = 1, !.kind = kind,
                                         !.testName = testName, !.image = current,
                                         !.threshold = threshold,
                                         !.ignoreRegions = ignoreRegions, !.via = "compare"]]

CompareNext == CompareImagesStep("r1")

SpecCompare == InitCompare /\ [][CompareNext]_vars

----------------------------------------------------------------------------
(* Claims about the execution history *)

AllIdle == \A w \in Workers : wpc[w] = "idle"

Occurrences(seq, x) == Cardinality({i \in DOMAIN seq : seq[i] = x})

\* C1: when concurrent recordTestResult calls on the same log have all
\* completed, the log holds every recorded result exactly once.
C1_NoRecordLost ==
    AllIdle => \A r \in recorded :
                   resultsFile.kind = "array" /\ Occurrences(resultsFile.recs, r) = 1

PassedIn(hist) == Cardinality({i \in DOMAIN hist : hist[i].status = "passed"})

\* C6: the flakyScore of every report lies in [0,1]; it is 0 when all runs
\* passed and 1 when no run passed, whatever the suggestion capability returns.
C6_ScoreInUnitInterval ==
    \A n \in DOMAIN opOut.analyses :
        LET score == opOut.analyses[n].flakyScore
            hist == ResultsOf(opOut.input, n)
        IN  /\ 0 <= score[1] /\ score[1] <= score[2]
            /\ PassedIn(hist) = Len(hist) => score[1] = 0
            /\ PassedIn(hist) = 0 => score[1] = score[2]

C8_AnalysisNeverThrows == opOut.threw = FALSE

\* C9: in a single worker every recordTestResult call keeps the stored
\* records as they are and adds exactly the new record at the end.
C9_AppendOnly ==
    [][(wpc["w1"] = "loaded" /\ wpc'["w1"] = "idle")
        => resultsFile' = FileArray(Append(resultsFile.recs, wPending["w1"]))]_vars

----------------------------------------------------------------------------
(* Claims about the locator *)

\* C2: after a getLocator call in which the cached selector failed its
\* validation probe, the cache no longer maps the description to that
\* selector, also when the call ends with the not-found error.
C2_FailedEntryEvicted ==
    (/\ loc.pc = "done"
     /\ loc.cachedLocator # NoSelector
     /\ ~isElementVisible(loc.pageAtStart, loc.cachedLocator, CacheProbeTimeout))
    => locatorCache[loc.description] # loc.cachedLocator

\* the selectors that only the suggestion capability proposed in this call
SuggestedOnly ==
    LET parsed == IF loc.aiConsulted /\ loc.ai.kind = "text"
                  THEN parseAIStrategies(loc.ai.text) ELSE <<>>
    IN  {Raw(parsed[i]) : i \in DOMAIN parsed}
        \ (Range(generateFallbackStrategies(loc.description, FALSE, AIError))
           \cup Range(loc.fallbackStrategies))

\* C3: on a cache miss every caller-supplied fallback is probed before any
\* suggestion-generated selector: a call never returns a selector that only
\* the suggestion capability proposed while a caller fallback would succeed.
C3_CallerFallbackBeforeSuggestion ==
    (/\ loc.pc = "done"
     /\ loc.outcome = "found"
     /\ loc.generated
     /\ loc.selector \in SuggestedOnly)
    => \A i \in DOMAIN loc.fallbackStrategies :
           ~isElementVisible(loc.pageAtStart, loc.fallbackStrategies[i], loc.timeout)

\* C4: a call with a resolvable candidate succeeds, and the next call for
\* the same description, the page and the cache unchanged, returns the cached selector
\* after the validation probe alone: nothing is generated and the
\* suggestion capability is not consulted.
C4_SecondCallHitsCache ==
    /\ [](loc.pc = "done" /\ loc.generated
          /\ (\E i \in DOMAIN loc.allStrategies :
                  isElementVisible(loc.pageAtStart, loc.allStrategies[i], loc.timeout))
          => loc.outcome = "found")
    /\ [][(/\ loc.pc = "done"
           /\ loc.outcome = "found"
           /\ locatorCache[loc.description] = loc.selector
           /\ locatorCache' = locatorCache
           /\ loc'.pc # "idle"
           /\ loc'.description = loc.description)
          => (/\ loc'.pc = "done"
              /\ loc'.outcome = "found"
              /\ loc'.selector = loc.selector
              /\ loc'.probes = <<Probe(loc.selector, CacheProbeTimeout)>>
              /\ ~loc'.generated
              /\ ~loc'.aiConsulted
              /\ loc'.allStrategies = <<>>)]_vars

\* a call answered from the cache
C4_Witness ==
    /\ loc.pc = "done"
    /\ loc.outcome = "found"
    /\ loc.cachedLocator # NoSelector
    /\ loc.selector = loc.cachedLocator
    /\ ~loc.generated

\* the probes of the candidate list, without the validation probe of the cache
CandidateProbes ==
    IF loc.cachedLocator = NoSelector THEN loc.probes ELSE Tail(loc.probes)

----------------------------------------------------------------------------
(* Claims about the waits *)

\* C10: every SmartWaits operation that accepts a timeout returns or fails
\* once that timeout has elapsed (one polling interval of slack), even if
\* the awaited condition never holds.
C10_ReturnsByTimeout == sw.pc = "running" => sw.elapsed <= sw.timeout + 1

\* the phases in which the wait is for the condition the caller asked for
PrimaryPhases == {"primary", "networkidle", "apiresponse"}

\* C11: when the requested condition of a wait does not hold within its
\* timeout, the operation fails with the timeout error; it never returns
\* success for a primary condition that was not met.
C11_PrimaryTimeoutFails ==
    [][(/\ sw.pc = "running"
        /\ \/ sw.phase \in PrimaryPhases /\ sw.left = 0 /\ sw' = AfterReject(sw)
           \/ sw.phase = "polling" /\ sw.elapsed >= sw.timeout /\ sw' # sw)
       => sw'.pc = "threw"]_vars

----------------------------------------------------------------------------
(* Claims about a failing or missing suggestion capability *)

\* C12: when the suggestion capability is unavailable or fails on every
\* call, no constructor fails, getLocator probes the candidates it probes
\* with useAI disabled and resolves every description that has a resolvable
\* one, and detectFlakyTests returns the statistical scores.
C12_SuggestionFailureIsHarmless ==
    /\ \A c \in Components : built[c] # "threw"
    /\ (loc.pc = "done" /\ loc.generated)
       => /\ loc.allStrategies = generateFallbackStrategies(loc.description, FALSE, AIError)
                                  \o loc.fallbackStrategies
          /\ (\E i \in DOMAIN loc.allStrategies :
                  isElementVisible(loc.pageAtStart, loc.allStrategies[i], loc.timeout))
             => loc.outcome = "found"
    /\ opOut.op = "detect"
       => /\ ~opOut.threw
          /\ \A n \in DOMAIN opOut.analyses :
                 opOut.analyses[n].flakyScore = StatisticalScore(ResultsOf(opOut.input, n))

----------------------------------------------------------------------------
(* Claims about the visual comparison *)

\* the files a call works on
BaselineOf(r) == baselineDir[BaselinePath(vv[r].kind, vv[r].testName)]

CurrentOf(r) == screenshotsDir[CurrentPath(vv[r].kind, vv[r].testName)]

\* C13: once a baseline is stored, a comparison with updateBaseline unset
\* leaves it as it is, whatever the comparison finds; only a call with
\* updateBaseline set replaces a stored baseline.
C13_BaselineKept ==
    [][\A p \in BaselinePaths :
          (baselineDir[p] # NoImage /\ baselineDir'[p] # baselineDir[p])
          => \E r \in Runs : /\ vv[r].pc = "copy"
                             /\ vv[r].updateBaseline
                             /\ BaselinePath(vv[r].kind, vv[r].testName) = p]_vars

\* a failed comparison that left a different baseline in place
C13_Witness ==
    /\ vv["r1"].pc = "returned"
    /\ vv["r1"].via = "compare"
    /\ ~vv["r1"].result.passed
    /\ BaselineOf("r1") # NoImage
    /\ BaselineOf("r1") # vv["r1"].image

\* C14: a comparison that finds no baseline stores the captured image as the
\* baseline and returns passed with diff 0, for every threshold and every
\* list of ignore regions.
C14_FirstRunCreatesBaseline ==
    [][\A r \in Runs :
          /\ (/\ vv[r].pc = "captured"
              /\ ~vv[r].updateBaseline
              /\ BaselineOf(r) = NoImage
              /\ vv'[r] # vv[r])
             => vv'[r].pc = "copy" /\ vv'[r].via = "create"
          /\ (vv[r].pc = "copy" /\ vv[r].via = "create" /\ vv'[r] # vv[r])
             => /\ vv'[r].pc = "returned"
                /\ vv'[r].result = Result(TRUE, Zero, <<>>, vv[r].threshold)
                /\ baselineDir'[BaselinePath(vv[r].kind, vv[r].testName)] = vv[r].image]_vars

\* a first comparison with ignore regions and a threshold that is not the default
C14_Witness ==
    /\ vv["r1"].pc = "returned"
    /\ vv["r1"].via = "create"
    /\ vv["r1"].ignoreRegions # <<>>
    /\ vv["r1"].threshold = <<1, 20>>
    /\ BaselineOf("r1") = vv["r1"].image

SameSize(a, b) == a.width = b.width /\ a.height = b.height

\* C15: when baseline and current image differ in width or height, the
\* comparison returns passed = false and diff = 1 and does not throw, for
\* every threshold and every list of ignore regions.
C15_MismatchFails ==
    \A r \in Runs :
        (/\ vv[r].via = "compare"
         /\ vv[r].pc \in {"returned", "threw"}
         /\ BaselineOf(r) # NoImage
         /\ CurrentOf(r) # NoImage
         /\ ~SameSize(BaselineOf(r), CurrentOf(r)))
        => /\ vv[r].pc = "returned"
           /\ vv[r].result.passed = FALSE
           /\ vv[r].result.diff = One

\* a mismatch compared with a threshold above 1 and an ignore region
C15_Witness ==
    /\ vv["r1"].pc = "returned"
    /\ vv["r1"].via = "compare"
    /\ ~SameSize(BaselineOf("r1"), CurrentOf("r1"))
    /\ vv["r1"].threshold = <<2, 1>>
    /\ vv["r1"].ignoreRegions # <<>>
    /\ ~vv["r1"].result.passed

\* C16: the diff ratio of a comparison with ignore regions is at most the
\* diff ratio of the same images and threshold compared without them.
C16_IgnoreRegionsNeverIncrease ==
    \A r \in Runs :
        (/\ vv[r].via = "compare"
         /\ vv[r].pc = "returned"
         /\ SameSize(BaselineOf(r), CurrentOf(r)))
        => FracLeq(vv[r].result.diff,
                   Frac(pixelmatch(BaselineOf(r), CurrentOf(r), vv[r].threshold),
                        BaselineOf(r).width * BaselineOf(r).height))

----------------------------------------------------------------------------
(* Claims about the confidence of a report *)

\* min(runs / 10, 1)
SampleSizeTerm(runs) == IF runs >= 10 THEN One ELSE Frac(runs, 10)

\* twice the score up to 1/2, and 1 above it
ClarityTerm(score) == IF FracLess(<<1, 2>>, score) THEN One ELSE FracDouble(score)

----------------------------------------------------------------------------
(* Claims about the order of the candidates *)

\* C18: on a cache miss the candidates are probed in list order; the call
\* returns the first one whose probe succeeds, probes none after it, and
\* stores it as the cache entry of the description, over a stale entry too.
C18_FirstSuccessWinsAndIsCached ==
    [][(loc.pc = "probe" /\ loc.idx <= Len(loc.allStrategies) /\ loc' # loc)
       => LET strategy == loc.allStrategies[loc.idx]
              succeeds == isElementVisible(pageDelay, strategy, loc.timeout)
          IN  /\ loc.idx = Len(CandidateProbes) + 1
              /\ succeeds
                 => /\ loc'.pc = "done"
                    /\ loc'.outcome = "found"
                    /\ loc'.selector = strategy
                    /\ locatorCache'[loc.description] = strategy
                    /\ loc'.probes = Append(loc.probes, Probe(strategy, loc.timeout))
              /\ ~succeeds
                 => /\ loc'.pc = "probe"
                    /\ loc'.idx = loc.idx + 1
                    /\ loc'.probes = Append(loc.probes, Probe(strategy, loc.timeout))
                    /\ locatorCache' = locatorCache]_vars

\* the text selector wins after the data-testid and aria-label selectors
\* failed, and replaces a stale cache entry
C18_Witness ==
    /\ loc.pc = "done"
    /\ loc.outcome = "found"
    /\ loc.generated
    /\ loc.cachedLocator # NoSelector
    /\ loc.cachedLocator # loc.selector
    /\ loc.selector = Selector("text", DescSubmitButton)
    /\ locatorCache[loc.description] = loc.selector
    /\ Len(CandidateProbes) = 3
    /\ Len(loc.allStrategies) > 3

----------------------------------------------------------------------------
(* Claims about geometric stability *)

\* waitForElementStable has logged that the element is stable
DeclaredStable(w) ==
    w.op = "waitForElementStable" /\ w.pc = "returned" /\ w.warnings = <<>>

\* C19: the element is declared stable only after 3 consecutive samples
\* that each differ from the sample before by less than 1 unit in x, y,
\* width and height; a sample that deviates or has no bounding box sets the
\* counter of consecutive samples to zero.
C19_StableAfterThreeQuietSamples ==
    /\ [](DeclaredStable(sw)
          => /\ Len(sw.recent) = requiredStableChecks + 1
             /\ \A i \in 1..requiredStableChecks :
                    /\ sw.recent[i] # NoBox
                    /\ sw.recent[i + 1] # NoBox
                    /\ Abs(sw.recent[i].x - sw.recent[i + 1].x) < 10
                    /\ Abs(sw.recent[i].y - sw.recent[i + 1].y) < 10
                    /\ Abs(sw.recent[i].width - sw.recent[i + 1].width) < 10
                    /\ Abs(sw.recent[i].height - sw.recent[i + 1].height) < 10)
    /\ [][(sw.phase = "sampling" /\ sw'.phase = "sampling")
          => \/ sw'.stableCount = sw.stableCount + 1
             \/ sw'.stableCount = 0 /\ ~SameBox(sw.previousBox, sw'.previousBox)]_vars

\* stability declared after an earlier sample had deviated
C19_Witness ==
    /\ DeclaredStable(sw)
    /\ sw.elapsed > requiredStableChecks
    /\ sw.recent[1] # sw.recent[2]

----------------------------------------------------------------------------
(* Claims about the optional conditions of waitForElement *)

\* the waits that follow the primary wait of waitForElement
OptionalPhases == {"ai", "loadstate", "response", "url", "function"}

\* C20: once the primary wait of waitForElement has succeeded the call
\* does not fail: a suggested or custom condition that fails or times out
\* is logged as a warning and the call goes on.
C20_OptionalFailuresOnlyWarn ==
    /\ []((sw.op = "waitForElement" /\ sw.pc = "threw")
          => sw.warnings = <<>> /\ sw.evaluated = <<>> /\ sw.smartWaitCode = <<>>)
    /\ [][(sw.op = "waitForElement" /\ sw.pc = "running" /\ sw.phase \in OptionalPhases)
          => /\ sw'.pc # "threw"
             /\ (sw.phase # "ai" /\ sw.left = 0 /\ sw'.warnings # sw.warnings)
                => /\ Len(sw'.warnings) = Len(sw.warnings) + 1
                   /\ sw'.pc = "returned" \/ sw'.phase \in OptionalPhases]_vars

\* waitForElement returned although a suggested wait and a custom
\* condition had both timed out
C20_Witness ==
    /\ sw.op = "waitForElement"
    /\ sw.pc = "returned"
    /\ sw.warnings = <<"Smart wait execution failed", "Custom condition failed">>

----------------------------------------------------------------------------
(* Claims about the reports of the detector *)

\* the normalized errors that at least two failed runs share and that name a
\* timeout, in whatever case
RecurringTimeouts(results) ==
    LET failed == SelectSeq(results, LAMBDA r : r.status = "failed" /\ r.error # <<>>)
        normalized == [i \in DOMAIN failed |-> normalizeError(failed[i].error)]
    IN  {e \in Range(normalized) :
            /\ Cardinality({i \in DOMAIN normalized : normalized[i] = e}) >= 2
            /\ Includes(toLowerCase(e), <<"t", "i", "m", "e", "o", "u", "t">>)}

\* C23: when at least two failed runs of a test share a normalized error
\* that is a timeout error, the report of the test has a recurring-error
\* reason and a recommendation about longer timeouts, and with 7 passes in
\* 10 runs its flakyScore is 3/10.
C23_RecurringTimeoutIsReported ==
    \A n \in DOMAIN opOut.analyses :
        LET results == ResultsOf(opOut.input, n)
            report == opOut.analyses[n]
        IN  RecurringTimeouts(results) # {}
            => /\ \E i \in DOMAIN report.reasons :
                      StartsWithAt(report.reasons[i], 1, <<"R", "e", "c", "u", "r", "r", "i", "n", "g", " ", "e", "r", "r", "o", "r", "s", ":", " ">>)
               /\ \E i \in DOMAIN report.recommendations :
                      Includes(toLowerCase(report.recommendations[i]), <<"t", "i", "m", "e", "o", "u", "t">>)
               /\ (Len(results) = 10 /\ CountStatus(results, "passed") = 7)
                  => report.flakyScore = <<3, 10>>

\* C24: detectFlakyTests returns exactly one report for every test of the
\* history whose reported flakyScore reaches the threshold, that report
\* being the analysis of the test, and no report for any other test.
C24_OneReportPerFlakyTest ==
    (opOut.op = "detect" /\ ~opOut.threw)
    => LET names == {opOut.input[i].testName : i \in DOMAIN opOut.input}
       IN  /\ \A n \in names :
                  Cardinality({i \in DOMAIN opOut.result : opOut.result[i].testName = n})
                      = IF FracLeq(flakyThreshold, opOut.analyses[n].flakyScore) THEN 1 ELSE 0
           /\ \A i \in DOMAIN opOut.result :
                  /\ opOut.result[i].testName \in names
                  /\ opOut.result[i] = opOut.analyses[opOut.result[i].testName]

\* a report whose score is exactly the threshold, beside none below it
C24_Witness ==
    /\ opOut.op = "detect"
    /\ ~opOut.threw
    /\ Len(opOut.result) = 1
    /\ opOut.result[1].flakyScore = flakyThreshold
    /\ Len(opOut.input) = 10

\* the tags of one optional field of the runs, 'unknown' where it is absent
Segments(results, field) ==
    {IF results[i][field] = <<>> THEN TextUnknown ELSE results[i][field] : i \in DOMAIN results}

\* the pass rate of the runs with the tag
SegmentPassRate(results, field, tag) ==
    LET in == {i \in DOMAIN results :
                  (IF results[i][field] = <<>> THEN TextUnknown ELSE results[i][field]) = tag}
    IN  Frac(Cardinality({i \in in : results[i].status = "passed"}), Cardinality(in))

\* C25: the report of a test names every browser segment and every OS
\* segment of its runs whose pass rate is below 0.8, and names no segment
\* whose pass rate is 0.8 or higher.
C25_LowSegmentsAreNamed ==
    \A n \in DOMAIN opOut.analyses :
        LET results == ResultsOf(opOut.input, n)
            texts == opOut.analyses[n].reasons \o opOut.analyses[n].recommendations
        IN  \A field \in {"browser", "os"} :
                \A tag \in Segments(results, field) :
                    (\E i \in DOMAIN texts : Includes(texts[i], tag))
                    <=> FracLess(SegmentPassRate(results, field, tag), <<4, 5>>)

----------------------------------------------------------------------------
(* Claims about runs that compare under the same name *)

\* both runs have captured a screenshot in their first call, a comparison of
\* the same kind without updateBaseline, and the calls have ended
BothFirstRunsDone ==
    /\ \A r \in Runs : /\ vv[r].n = 1
                       /\ vv[r].pc \in {"returned", "threw"}
                       /\ vv[r].via # "none"
                       /\ ~vv[r].updateBaseline
    /\ vv["r1"].kind = vv["r2"].kind

\* C27: when two runs make a first comparison under the same name while no
\* baseline exists, both calls return and the baseline stored afterwards is
\* the image that one of the two runs captured.
C27_ParallelFirstRunsLeaveOneCapture ==
    BothFirstRunsDone
    => /\ \A r \in Runs : vv[r].pc = "returned"
       /\ BaselineOf("r1") \in {vv["r1"].image, vv["r2"].image}

\* C28: a call evaluates the image it captured itself: the baseline it
\* creates or updates is its own capture, and its comparison is the
\* comparison of the stored baseline with its own capture.
C28_EvaluatesOwnCapture ==
    [][\A r \in Runs :
          /\ (vv[r].pc = "copy" /\ vv'[r].pc = "returned")
             => baselineDir'[BaselinePath(vv[r].kind, vv[r].testName)] = vv[r].image
          /\ (vv[r].pc = "compare" /\ vv'[r].pc \in {"returned", "threw"})
             => LET own == compareImages(BaselineOf(r), vv[r].image, vv[r].testName,
                                         vv[r].threshold, vv[r].ignoreRegions)
                IN  /\ vv'[r].pc = "threw" <=> own.threw
                    /\ ~own.threw => vv'[r].result = own.result]_vars

----------------------------------------------------------------------------
(* Claims about diff images, thresholds and ignore regions *)

\* C21: a diff image is written for every comparison that fails, a dimension
\* mismatch included, and for no comparison that passes: a result with
\* passed = false names a diff file that exists, a result with passed = true
\* names none and leaves none behind.
C21_DiffImageExactlyOnFailure ==
    \A r \in Runs :
        (vv[r].via = "compare" /\ vv[r].pc = "returned")
        => IF vv[r].result.passed
           THEN /\ vv[r].result.diffPath = <<>>
                /\ diffDir[DiffPath(vv[r].testName)] = NoImage
           ELSE /\ vv[r].result.diffPath = DiffPath(vv[r].testName)
                /\ diffDir[DiffPath(vv[r].testName)] # NoImage

\* C22: the diff ratio of a comparison does not depend on the threshold
\* option: the same baseline, current image and ignore regions compared
\* under any other threshold give the same diff ratio.
C22_DiffIndependentOfThreshold ==
    \A r \in Runs :
        (vv[r].via = "compare" /\ vv[r].pc = "returned")
        => \A threshold \in Thresholds :
               compareImages(BaselineOf(r), CurrentOf(r), vv[r].testName, threshold,
                             vv[r].ignoreRegions).result.diff = vv[r].result.diff

\* the pixel at column x, row y lies inside the rectangle of the region
InRegion(x, y, region) ==
    /\ region.x <= x /\ x < region.x + region.width
    /\ region.y <= y /\ y < region.y + region.height

\* C30: applyIgnoreRegions changes only the pixels inside a declared
\* rectangle: in the image it returns, every pixel inside some region is
\* 0, 0, 0, 0 and every other pixel has the value of the input image, also
\* for regions with a negative corner or reaching past the edges.
C30_OnlyRegionPixelsCleared ==
    \A r \in Runs :
        (vv[r].via = "compare" /\ vv[r].pc = "returned"
         /\ SameSize(BaselineOf(r), CurrentOf(r)))
        => LET image == CurrentOf(r)
               processed == applyIgnoreRegions(image, vv[r].ignoreRegions)
           IN  /\ processed.width = image.width
               /\ processed.height = image.height
               /\ \A x \in 0 .. (image.width - 1), y \in 0 .. (image.height - 1) :
                      At(processed, x, y) =
                          IF \E i \in DOMAIN vv[r].ignoreRegions :
                                 InRegion(x, y, vv[r].ignoreRegions[i])
                          THEN Clear
                          ELSE At(image, x, y)

----------------------------------------------------------------------------
(* Claims about failures of the locator and of optional waits *)

\* C26: when no candidate succeeds, the error that getLocator throws carries
\* the element description and the number of strategies that were tried.
C26_NotFoundCarriesDescriptionAndCount ==
    (loc.pc = "done" /\ loc.outcome = "notfound")
    => /\ "description" \in DOMAIN loc.error
       /\ loc.error.description = loc.description
       /\ "attempted" \in DOMAIN loc.error
       /\ loc.error.attempted = Len(loc.allStrategies)

\* C29: when waitForElement returns after its primary wait succeeded, every
\* custom condition of the call has been evaluated, whether or not the
\* suggestion call was made and whether or not it failed.
C29_CustomConditionsAlwaysEvaluated ==
    (sw.op = "waitForElement" /\ sw.pc = "returned")
    => sw.evaluated = [i \in 1 .. Len(sw.customConditions) |-> i]

====
